---- MODULE Spec2Model ----
(***************************************************************************)
(* Weather acquisition core of sky.io-backend (src/src/lib/weather.js):    *)
(* the TTL cache, the inflight map, the retry loop of getTomorrowRaw and   *)
(* the entry points getRealtime, getForecast, forecastFactsForSchedule with *)
(* their Open-Meteo fallback, and the pure functions around them.          *)
(*                                                                         *)
(* JavaScript runs every stretch of code between two awaits to completion, *)
(* so one action is one such stretch: the synchronous body of a call, the  *)
(* continuation after http.get settles, the continuation after a sleep,    *)
(* the finally callback, the continuation of a caller's await.             *)
(***************************************************************************)
EXTENDS Integers, FiniteSets, Sequences, TLC

\* ------------------------------------------------------------------ bounds
NCallers == 3
MaxSamples == 2
MaxRows == 3
MaxCompanies == 3
MaxHistorial == 3
NHandlers == 2
MaxRuns == 3

\* ------------------------------------------------------- program constants
TTL_MS == 5 * 60 * 1000
MAX_RETRIES == 3
BACKOFF_MS == 750

\* ------------------------------------------------------------- input sets
Callers == 1..NCallers
\* every call creates at most one promise p
FetchIds == 1..NCallers
\* a JavaScript value passed as a coordinate: a number, a string, null or
\* undefined. m is the number in thousandths of a degree; for a string,
\* finite and m tell what its text parses to
Num(m) == [type |-> "number", finite |-> TRUE, m |-> m]
NaN == [type |-> "number", finite |-> FALSE, m |-> 0]
Str(m) == [type |-> "string", finite |-> TRUE, m |-> m]
StrText == [type |-> "string", finite |-> FALSE, m |-> 0]
Null == [type |-> "null", finite |-> FALSE, m |-> 0]
Undefined == [type |-> "undefined", finite |-> FALSE, m |-> 0]

\* Number(v): null gives 0, undefined gives NaN, a string what it parses to
Number(v) ==
  CASE v.type = "null" -> [finite |-> TRUE, m |-> 0]
    [] v.type = "undefined" -> [finite |-> FALSE, m |-> 0]
    [] OTHER -> [finite |-> v.finite, m |-> v.m]

\* isNum: Number.isFinite(Number(v))
isNum(v) == Number(v).finite

\* x.toFixed(2) of a number of x.m thousandths: the sign, then the hundredths
\* nearest to |x| (no input lies halfway between two hundredths); -0.001
\* gives "-0.00" and 0.001 gives "0.00"
toFixed2(x) ==
  IF ~x.finite THEN [neg |-> FALSE, h |-> -1]
  ELSE [neg |-> x.m < 0, h |-> ((IF x.m < 0 THEN -x.m ELSE x.m) + 5) \div 10]

\* the key built from the coordinates rounded to whole degrees
keyCoords_wholeDegrees(lat, lon) ==
  <<[neg |-> Number(lat).m < 0, h |-> 100 * (toFixed2(Number(lat)).h \div 100)],
    [neg |-> Number(lon).m < 0, h |-> 100 * (toFixed2(Number(lon)).h \div 100)]>>

\* keyCoords: `${Number(lat).toFixed(2)},${Number(lon).toFixed(2)}`
keyCoords(lat, lon) == <<toFixed2(Number(lat)), toFixed2(Number(lon))>>

\* an invocation of an entry point with its arguments, the defaults filled
\* in; "" is an absent startTime / endTime
NoCall == [fn |-> "none", lat |-> Undefined, lon |-> Undefined, units |-> "",
           timesteps |-> "", startTime |-> "", endTime |-> ""]
Realtime(lat, lon, units) ==
  [NoCall EXCEPT !.fn = "getRealtime", !.lat = lat, !.lon = lon, !.units = units]
Forecast(fn, lat, lon, units, startTime, endTime) ==
  [fn |-> fn, lat |-> lat, lon |-> lon, units |-> units, timesteps |-> "1h",
   startTime |-> startTime, endTime |-> endTime]

\* the cache key of an invocation, its parts joined by "|":
\* `realtime|${keyCoords(lat, lon)}|${units}` and
\* `forecast|${keyCoords(lat, lon)}|${units}|${timesteps}|${startTime || ''}|${endTime || ''}`
cacheKey(q) ==
  IF q.fn = "getRealtime"
  THEN <<"realtime", keyCoords(q.lat, q.lon), q.units>>
  ELSE <<"forecast", keyCoords(q.lat, q.lon), q.units, q.timesteps, q.startTime, q.endTime>>
NoKey == <<"none">>

\* the window of one schedule as scheduleToUTCWindow renders it
WindowStart == "2024-06-10T13:00:00.000Z"
WindowEnd == "2024-06-10T22:00:00.000Z"
CallA == Realtime(Num(4600), Num(-74080), "metric")
CallB == Realtime(Num(6250), Num(-75560), "metric")
CallF == Forecast("getForecast", Num(4600), Num(-74080), "metric", WindowStart, WindowEnd)
CallFacts == Forecast("forecastFactsForSchedule", Num(4600), Num(-74080), "metric", WindowStart, WindowEnd)
KeyA == cacheKey(CallA)
KeyB == cacheKey(CallB)
\* key of the getForecast call of forecastFactsForSchedule for one schedule
KeyF == cacheKey(CallF)
\* coordinates given to getRealtime: numbers in and out of range, numbers
\* that round to the same and to different hundredths, strings, null,
\* undefined
LatInputs == {Num(4601), Num(4604), Num(4606), Str(4601), Num(-1), Num(1), Num(91000), NaN,
             StrText, Null, Undefined}
CoordCalls ==
  {Realtime(a, Num(-74080), "metric") : a \in LatInputs}
    \cup {Realtime(Num(0), Num(181000), "metric"), Realtime(Num(4601), Num(-74080), "imperial"),
          Forecast("getForecast", Num(4601), Num(-74080), "metric", "", ""),
          Forecast("getForecast", Num(4601), Num(-74080), "metric", WindowStart, WindowEnd)}
Keys == {KeyA, KeyB, KeyF}
\* the keys of the invocations of CoordCalls that pass the validation
CoordKeys == {cacheKey(q) : q \in {u \in CoordCalls : isNum(u.lat) /\ isNum(u.lon)}}
\* the getRealtime requests as <<caller, invocation>>; the first request is
\* the one for KeyA
Requests == {r \in Callers \X {CallA, CallB} : r[1] = 1 => r[2] = CallA}
\* body of the 2xx answer of the primary provider to fetch f: a JSON object,
\* a new one for every answer
Payload(f) == <<"tomorrow", f>>
Payloads == {Payload(f) : f \in FetchIds}
\* answer of the secondary provider to caller c, put in primary shape
OpenMeteoPayload(c) == <<"openmeteo", c>>
\* err.response.status of a failed http.get; NoStatus: err.response absent
NoStatus == 0
\* Number(err.response.headers['retry-after']); NotANumber: header absent
\* or not numeric
NotANumber == -1
\* failures of http.get as <<status, retry-after>>: the ones the concurrency
\* specification draws from, and the ones the retry specification draws from
Failures == {<<404, NotANumber>>}
RetryFailures == {<<NoStatus, NotANumber>>, <<400, NotANumber>>, <<404, 2>>,
                  <<429, 2>>, <<429, NotANumber>>, <<500, NotANumber>>, <<503, 0>>}
RetryCallers == {1, 2}
RetryRequests == RetryCallers \X {CallA}

NoData == <<"none", 0>>
NoErr == [msg |-> "none", status |-> NoStatus, ra |-> NotANumber]
MissingKeyErr == [msg |-> "MISSING_API_KEY", status |-> NoStatus, ra |-> NotANumber]
OpenMeteoErr == [msg |-> "OPEN_METEO_ERROR", status |-> NoStatus, ra |-> NotANumber]
\* new Error('INVALID_COORDS') with e.status = 400
InvalidCoordsErr == [msg |-> "INVALID_COORDS", status |-> 400, ra |-> NotANumber]
\* the error axios raises: a response with a status and headers, or none
HttpErr(st, ra) == [msg |-> "HTTP_ERROR", status |-> st, ra |-> IF st = NoStatus THEN NotANumber ELSE ra]

Resolved(d) == [ok |-> TRUE, data |-> d, err |-> NoErr]
Rejected(e) == [ok |-> FALSE, data |-> NoData, err |-> e]
Pending == [ok |-> FALSE, data |-> NoData, err |-> NoErr]

\* no pure function has been called
NoArgs == [fn |-> "none"]
NotRun == [done |-> FALSE]
\* the call has returned value v
Returns(v) == [done |-> TRUE, value |-> v]

NoEntry == [has |-> FALSE, expires |-> 0, data |-> NoData]
NoFetch == [phase |-> "none", key |-> NoKey, i |-> 0, wake |-> 0, err |-> NoErr,
            lastErr |-> NoErr, outcome |-> Pending, attempts |-> 0, sleeps |-> 0,
            failedAt |-> 0, failedI |-> 0, issuedAt |-> 0]
\* call: the entry point invoked and its arguments; raw: what the await of
\* getTomorrowRaw gave; res: what the invocation gave; om: the queries it
\* has sent to the secondary provider
IdleCaller == [pc |-> "idle", call |-> NoCall, key |-> NoKey, f |-> 0, raw |-> Pending,
               res |-> Pending, via |-> "none", om |-> 0]

\* ------------------------------------------- the database of the routes
\* users: the ids of the rows; lastUser: the AUTO_INCREMENT id given last;
\* companies: id -> user_id of the row, 0 where there is no row; historial:
\* the rows [id, user_id, company_id]; lastCompany, lastHistorial: the
\* AUTO_INCREMENT ids given last
Users == 1..2
CompanyIds == 1..MaxCompanies
NoDb ==
  [users |-> {}, lastUser |-> 0, companies |-> [i \in CompanyIds |-> 0], historial |-> {},
   lastCompany |-> 0, lastHistorial |-> 0]
\* user 1 and user 2 own one company each, each with one row of historial
SeedDb ==
  [users |-> Users, lastUser |-> 2,
   companies |-> [i \in CompanyIds |-> IF i \in Users THEN i ELSE 0],
   historial |-> {[id |-> u, user_id |-> u, company_id |-> u] : u \in Users},
   lastCompany |-> 2, lastHistorial |-> 2]

\* ------------------------------------------------- the connection pool
\* the requests that create a row, and the connections that the pool can
\* have made for them (one for each query in progress, connectionLimit
\* being larger)
Handlers == 1..NHandlers
Conns == 1..NHandlers
\* no connection made yet: free is the set of the idle connections, made
\* the number of connections made, lastInsertId the LAST_INSERT_ID() of each
NoPool == [free |-> {}, made |-> 0, lastInsertId |-> [c \in Conns |-> 0]]
\* no request received: route is the handler, step the query it has reached,
\* conn the connection of the query in progress, inserted the id of the row
\* its INSERT created, rows the ids that its last query returned
NoHandler ==
  [pc |-> "idle", route |-> "none", uid |-> 0, step |-> 0, conn |-> 0, inserted |-> 0,
   rows |-> {}, status |-> 0, body |-> 0]
NoHandlers == [h \in Handlers |-> NoHandler]

\* ---------------------------------------------------- the migration runner
\* table: the names in the migrations table; applied: the files whose SQL
\* was run, in the order of the runs; pc, todo: the position of run() and
\* the files it has still to visit; runs: the runs started so far
NoMigrations == [table |-> {}, applied |-> <<>>, pc |-> "stopped", todo |-> <<>>, runs |-> 0]

VARIABLES
  now,        \* Date.now()
  API_KEY,    \* TRUE iff process.env.TOMORROW_API_KEY is set
  cache,      \* key -> {expires, data}
  inflight,   \* key -> id of the fetch whose promise is stored, 0 if none
  fetch,      \* the promises p created by getTomorrowRaw, by id
  nfetch,     \* number of promises p created so far
  caller,     \* the invocations of the entry points
  ncalls,     \* number of invocations so far
  primaryOK,  \* history: <<key, payload>> of every 2xx answer of the primary
  args,       \* arguments of the call of a pure function, or the request
  ret,        \* what that call returned, or the response
  db,         \* the tables users, companies and historial
  pool,       \* the connections of the mysql2 pool
  handler,    \* the requests that create a row, each in its handler
  mig         \* the migrations table, the SQL applied so far, the runner

vars ==
  <<now, API_KEY, cache, inflight, fetch, nfetch, caller, ncalls, primaryOK, args, ret, db,
    pool, handler, mig>>

\* ------------------------------------------------------------ cache store
\* getCache with the expiry test h.expires >= Date.now()
getCache_inclusive(k) == IF cache[k].has /\ cache[k].expires >= now THEN cache[k].data ELSE NoData

\* getCache: h && h.expires > Date.now() ? h.data : null
getCache(k) == IF cache[k].has /\ cache[k].expires > now THEN cache[k].data ELSE NoData

\* setCache writing the new payload into the entry at hand, expiry untouched
setCache_inPlace(k, d) ==
  IF cache[k].has
  THEN [cache EXCEPT ![k].data = d]
  ELSE [cache EXCEPT ![k] = [has |-> TRUE, expires |-> now + TTL_MS, data |-> d]]

\* setCache: cache.set(k, {expires: Date.now() + TTL_MS, data: d})
setCache(k, d) == [cache EXCEPT ![k] = [has |-> TRUE, expires |-> now + TTL_MS, data |-> d]]

\* getTomorrowRaw without the inflight test
inflightHas_never(k) == FALSE

\* inflight.has(cacheKey)
inflightHas(k) == inflight[k] # 0

\* ------------------------------------------------------------- retry loop
\* the retry test with every 4xx taken for retryable
Retryable_any4xx(st) == st >= 400 \/ st = NoStatus

\* st === 429 || st >= 500 || !st
Retryable(st) == st = 429 \/ st >= 500 \/ st = NoStatus

Pow2(n) == IF n = 0 THEN 1 ELSE IF n = 1 THEN 2 ELSE IF n = 2 THEN 4 ELSE IF n = 3 THEN 8 ELSE 16

\* the sleep without the retry-after header
SleepMs_noHeader(ra, i) == BACKOFF_MS * Pow2(i)

\* Number.isFinite(ra) ? ra * 1000 : BACKOFF_MS * Math.pow(2, i)
SleepMs(ra, i) == IF ra # NotANumber THEN ra * 1000 ELSE BACKOFF_MS * Pow2(i)

\* the loop condition i <= MAX_RETRIES
LoopContinues_inclusive(i) == i <= MAX_RETRIES

\* loop condition of for (let i = 0; i < MAX_RETRIES; i++)
LoopContinues(i) == i < MAX_RETRIES

\* p settles with outcome o: the locals of the async function are gone, the
\* counts of upstream calls and of sleeps are kept as history
Settle(r, o) ==
  [NoFetch EXCEPT !.phase = "settled", !.key = r.key, !.outcome = o,
                  !.attempts = r.attempts, !.sleeps = r.sleeps]

\* catch (err) of the retry loop, entered by fetch record r with error e:
\* a retryable error starts the backoff sleep, any other is thrown out of p
Catch(r, e) ==
  IF Retryable(e.status)
  THEN [r EXCEPT !.phase = "sleep", !.err = e, !.wake = now + SleepMs(e.ra, r.i),
                 !.sleeps = r.sleeps + 1, !.failedAt = now, !.failedI = r.i]
  ELSE Settle(r, Rejected(e))

\* after the loop, with only an entry that has not expired returned
Exhausted_freshOnly(r) ==
  IF getCache(r.key) # NoData
  THEN Settle(r, Resolved(getCache(r.key)))
  ELSE Settle(r, Rejected(IF r.lastErr = NoErr
                          THEN [NoErr EXCEPT !.msg = "WEATHER_ERROR"]
                          ELSE r.lastErr))

\* after the loop: const stale = cache.get(cacheKey)?.data;
\* if (stale) return stale; throw lastErr || new Error('WEATHER_ERROR')
Exhausted(r) ==
  IF cache[r.key].has
  THEN Settle(r, Resolved(cache[r.key].data))
  ELSE Settle(r, Rejected(IF r.lastErr = NoErr
                          THEN [NoErr EXCEPT !.msg = "WEATHER_ERROR"]
                          ELSE r.lastErr))

\* one entry of the loop body for fetch record r, up to its first await:
\* without API_KEY the throw is caught by the loop's own catch; with it
\* http.get is issued
TryAttempt(r) ==
  IF ~LoopContinues(r.i) THEN Exhausted(r)
  ELSE IF ~API_KEY THEN Catch(r, MissingKeyErr)
  ELSE [r EXCEPT !.phase = "http", !.attempts = r.attempts + 1, !.issuedAt = now]

\* ---------------------------------------------------------------- actions
Init ==
  /\ now = 0
  /\ API_KEY \in BOOLEAN
  /\ cache = [k \in Keys |-> NoEntry]
  /\ inflight = [k \in Keys |-> 0]
  /\ fetch = [f \in FetchIds |-> NoFetch]
  /\ nfetch = 0
  /\ caller = [c \in Callers |-> IdleCaller]
  /\ ncalls = 0
  /\ primaryOK = {}
  /\ args = NoArgs
  /\ ret = NotRun
  /\ db = NoDb
  /\ pool = NoPool
  /\ handler = NoHandlers
  /\ mig = NoMigrations

\* getRealtime / getForecast with a coordinate that is not a finite number:
\* throw INVALID_COORDS before the key is built
CallInvalid(c, q) ==
  /\ caller[c].pc = "idle"
  /\ c = ncalls + 1
  /\ ~(isNum(q.lat) /\ isNum(q.lon))
  /\ caller' = [caller EXCEPT ![c] = [pc |-> "done", call |-> q, om |-> 0, key |-> NoKey, f |-> 0,
                                      raw |-> Pending, res |-> Rejected(InvalidCoordsErr),
                                      via |-> "invalid"]]
  /\ ncalls' = ncalls + 1
  /\ UNCHANGED <<now, API_KEY, cache, inflight, fetch, nfetch, primaryOK, args, ret, db, pool, handler, mig>>

\* an entry point -> getTomorrowRaw, the synchronous part, served from the cache
CallFresh(c, q) ==
  LET k == cacheKey(q) IN
  /\ caller[c].pc = "idle"
  /\ c = ncalls + 1
  /\ isNum(q.lat) /\ isNum(q.lon)
  /\ getCache(k) # NoData
  /\ caller' = [caller EXCEPT ![c] = [pc |-> "done", call |-> q, om |-> 0, key |-> k, f |-> 0,
                                      raw |-> Resolved(getCache(k)),
                                      res |-> Resolved(getCache(k)), via |-> "fresh"]]
  /\ ncalls' = ncalls + 1
  /\ UNCHANGED <<now, API_KEY, cache, inflight, fetch, nfetch, primaryOK, args, ret, db, pool, handler, mig>>

\* CallJoin serving the expired entry while the refresh is inflight
CallJoin_servesStale(c, q) ==
  LET k == cacheKey(q) IN
  /\ caller[c].pc = "idle"
  /\ c = ncalls + 1
  /\ isNum(q.lat) /\ isNum(q.lon)
  /\ getCache(k) = NoData
  /\ inflightHas(k)
  /\ caller' = [caller EXCEPT ![c] =
        IF cache[k].has
        THEN [pc |-> "done", call |-> q, om |-> 0, key |-> k, f |-> 0, raw |-> Resolved(cache[k].data),
              res |-> Resolved(cache[k].data), via |-> "stale"]
        ELSE [pc |-> "waiting", call |-> q, om |-> 0, key |-> k, f |-> inflight[k],
              raw |-> Pending, res |-> Pending, via |-> "join"]]
  /\ ncalls' = ncalls + 1
  /\ UNCHANGED <<now, API_KEY, cache, inflight, fetch, nfetch, primaryOK, args, ret, db, pool, handler, mig>>

\* an entry point -> getTomorrowRaw, the synchronous part, joining the promise
\* stored in inflight
CallJoin(c, q) ==
  LET k == cacheKey(q) IN
  /\ caller[c].pc = "idle"
  /\ c = ncalls + 1
  /\ isNum(q.lat) /\ isNum(q.lon)
  /\ getCache(k) = NoData
  /\ inflightHas(k)
  /\ caller' = [caller EXCEPT ![c] = [pc |-> "waiting", call |-> q, om |-> 0, key |-> k, f |-> inflight[k],
                                      raw |-> Pending, res |-> Pending, via |-> "join"]]
  /\ ncalls' = ncalls + 1
  /\ UNCHANGED <<now, API_KEY, cache, inflight, fetch, nfetch, primaryOK, args, ret, db, pool, handler, mig>>

\* CallFetch without inflight.set(cacheKey, p)
CallFetch_noSet(c, q) ==
  LET k == cacheKey(q) IN
  /\ caller[c].pc = "idle"
  /\ c = ncalls + 1
  /\ isNum(q.lat) /\ isNum(q.lon)
  /\ getCache(k) = NoData
  /\ ~inflightHas(k)
  /\ nfetch' = nfetch + 1
  /\ fetch' = [fetch EXCEPT ![nfetch + 1] = TryAttempt([NoFetch EXCEPT !.key = k])]
  /\ caller' = [caller EXCEPT ![c] = [pc |-> "waiting", call |-> q, om |-> 0, key |-> k, f |-> nfetch + 1,
                                      raw |-> Pending, res |-> Pending, via |-> "fetch"]]
  /\ ncalls' = ncalls + 1
  /\ UNCHANGED <<now, API_KEY, cache, inflight, primaryOK, args, ret, db, pool, handler, mig>>

\* an entry point -> getTomorrowRaw, the synchronous part, creating p: the async
\* function runs to its first await, then inflight.set(cacheKey, p)
CallFetch(c, q) ==
  LET k == cacheKey(q) IN
  /\ caller[c].pc = "idle"
  /\ c = ncalls + 1
  /\ isNum(q.lat) /\ isNum(q.lon)
  /\ getCache(k) = NoData
  /\ ~inflightHas(k)
  /\ nfetch' = nfetch + 1
  /\ fetch' = [fetch EXCEPT ![nfetch + 1] = TryAttempt([NoFetch EXCEPT !.key = k])]
  /\ inflight' = [inflight EXCEPT ![k] = nfetch + 1]
  /\ caller' = [caller EXCEPT ![c] = [pc |-> "waiting", call |-> q, om |-> 0, key |-> k, f |-> nfetch + 1,
                                      raw |-> Pending, res |-> Pending, via |-> "fetch"]]
  /\ ncalls' = ncalls + 1
  /\ UNCHANGED <<now, API_KEY, cache, primaryOK, args, ret, db, pool, handler, mig>>

\* http.get resolves: setCache(cacheKey, data); return data
HttpOk(f, d) ==
  /\ fetch[f].phase = "http"
  /\ cache' = setCache(fetch[f].key, d)
  /\ fetch' = [fetch EXCEPT ![f] = Settle(@, Resolved(d))]
  /\ primaryOK' = primaryOK \cup {<<fetch[f].key, d>>}
  /\ UNCHANGED <<now, API_KEY, inflight, nfetch, caller, ncalls, args, ret, db, pool, handler, mig>>

\* http.get rejects (non-2xx status, network error or timeout)
HttpFail(f, st, ra) ==
  /\ fetch[f].phase = "http"
  /\ fetch' = [fetch EXCEPT ![f] = Catch(@, HttpErr(st, ra))]
  /\ UNCHANGED <<now, API_KEY, cache, inflight, nfetch, caller, ncalls, primaryOK, args, ret, db, pool, handler, mig>>

\* the sleep timer fires: lastErr = err; continue (i++, loop test, next body)
Wake(f) ==
  /\ fetch[f].phase = "sleep"
  /\ now >= fetch[f].wake
  /\ fetch' = [fetch EXCEPT ![f] = TryAttempt([fetch[f] EXCEPT !.lastErr = fetch[f].err, !.i = fetch[f].i + 1])]
  /\ UNCHANGED <<now, API_KEY, cache, inflight, nfetch, caller, ncalls, primaryOK, args, ret, db, pool, handler, mig>>

\* the handle removed by .then, that is only when p is fulfilled
Finally_onSuccess(f) ==
  /\ fetch[f].phase = "settled"
  /\ inflight' = IF fetch[f].outcome.ok THEN [inflight EXCEPT ![fetch[f].key] = 0] ELSE inflight
  /\ fetch' = [fetch EXCEPT ![f].phase = "done"]
  /\ UNCHANGED <<now, API_KEY, cache, nfetch, caller, ncalls, primaryOK, args, ret, db, pool, handler, mig>>

\* the finally callback clearing the whole inflight map
Finally_clearsAll(f) ==
  /\ fetch[f].phase = "settled"
  /\ inflight' = [k \in DOMAIN inflight |-> 0]
  /\ fetch' = [fetch EXCEPT ![f].phase = "done"]
  /\ UNCHANGED <<now, API_KEY, cache, nfetch, caller, ncalls, primaryOK, args, ret, db, pool, handler, mig>>

\* .finally(() => inflight.delete(cacheKey)), after which p itself settles
Finally(f) ==
  /\ fetch[f].phase = "settled"
  /\ inflight' = [inflight EXCEPT ![fetch[f].key] = 0]
  /\ fetch' = [fetch EXCEPT ![f].phase = "done"]
  /\ UNCHANGED <<now, API_KEY, cache, nfetch, caller, ncalls, primaryOK, args, ret, db, pool, handler, mig>>

\* the await on a fulfilled p that goes on to the secondary provider as well
ObserveOk_thenSecondary(c) ==
  /\ caller[c].pc = "waiting"
  /\ fetch[caller[c].f].phase = "done"
  /\ fetch[caller[c].f].outcome.ok
  /\ caller' = [caller EXCEPT ![c] = [@ EXCEPT !.pc = "fallback", !.raw = fetch[caller[c].f].outcome,
                                               !.om = caller[c].om + 1]]
  /\ UNCHANGED <<now, API_KEY, cache, inflight, fetch, nfetch, ncalls, primaryOK, args, ret, db, pool, handler, mig>>

\* the await of getRealtime / getForecast on a fulfilled p: return raw
ObserveOk(c) ==
  /\ caller[c].pc = "waiting"
  /\ fetch[caller[c].f].phase = "done"
  /\ fetch[caller[c].f].outcome.ok
  /\ caller' = [caller EXCEPT ![c] = [@ EXCEPT !.pc = "done", !.raw = fetch[caller[c].f].outcome,
                                               !.res = fetch[caller[c].f].outcome]]
  /\ UNCHANGED <<now, API_KEY, cache, inflight, fetch, nfetch, ncalls, primaryOK, args, ret, db, pool, handler, mig>>

\* the await of getRealtime / getForecast on a rejected p: catch { getOpenMeteo(...) }
ObserveErr(c) ==
  /\ caller[c].pc = "waiting"
  /\ fetch[caller[c].f].phase = "done"
  /\ ~fetch[caller[c].f].outcome.ok
  /\ caller' = [caller EXCEPT ![c] = [@ EXCEPT !.pc = "fallback", !.raw = fetch[caller[c].f].outcome,
                                               !.om = caller[c].om + 1]]
  /\ UNCHANGED <<now, API_KEY, cache, inflight, fetch, nfetch, ncalls, primaryOK, args, ret, db, pool, handler, mig>>

\* the fallback result written to the cache
FallbackOk_cached(c, d) ==
  /\ caller[c].pc = "fallback"
  /\ caller' = [caller EXCEPT ![c] = [@ EXCEPT !.pc = "done", !.res = Resolved(d), !.via = "fallback"]]
  /\ cache' = setCache(caller[c].key, d)
  /\ UNCHANGED <<now, API_KEY, inflight, fetch, nfetch, ncalls, primaryOK, args, ret, db, pool, handler, mig>>

\* getOpenMeteo / getOpenMeteoForecastWindow resolves: it is returned in the
\* shape of the primary
FallbackOk(c, d) ==
  /\ caller[c].pc = "fallback"
  /\ caller' = [caller EXCEPT ![c] = [@ EXCEPT !.pc = "done", !.res = Resolved(d), !.via = "fallback"]]
  /\ UNCHANGED <<now, API_KEY, cache, inflight, fetch, nfetch, ncalls, primaryOK, args, ret, db, pool, handler, mig>>

\* getOpenMeteo / getOpenMeteoForecastWindow rejects: the error leaves
\* getRealtime / getForecast
FallbackFail(c) ==
  /\ caller[c].pc = "fallback"
  /\ caller' = [caller EXCEPT ![c] = [@ EXCEPT !.pc = "done", !.res = Rejected(OpenMeteoErr), !.via = "fallback"]]
  /\ UNCHANGED <<now, API_KEY, cache, inflight, fetch, nfetch, ncalls, primaryOK, args, ret, db, pool, handler, mig>>

\* instants at which something can change: timers and cache expiries
Deadlines ==
  {fetch[f].wake : f \in {g \in FetchIds : fetch[g].phase = "sleep"}}
    \cup {cache[k].expires : k \in {j \in DOMAIN cache : cache[j].has}}

\* the clock moves on to the next of these instants
Advance(t) ==
  /\ t \in Deadlines
  /\ t > now
  /\ \A u \in Deadlines : u > now => t <= u
  /\ now' = t
  /\ UNCHANGED <<API_KEY, cache, inflight, fetch, nfetch, caller, ncalls, primaryOK, args, ret, db, pool, handler, mig>>

Next ==
  \/ \E r \in Requests : CallFresh(r[1], r[2])
  \/ \E r \in Requests : CallJoin(r[1], r[2])
  \/ \E r \in Requests : CallFetch(r[1], r[2])
  \/ \E f \in FetchIds : HttpOk(f, Payload(f))
  \/ \E f \in FetchIds, e \in Failures : HttpFail(f, e[1], e[2])
  \/ \E f \in FetchIds : Wake(f)
  \/ \E f \in FetchIds : Finally(f)
  \/ \E c \in Callers : ObserveOk(c)
  \/ \E c \in Callers : ObserveErr(c)
  \/ \E c \in Callers : FallbackOk(c, OpenMeteoPayload(c))
  \/ \E c \in Callers : FallbackFail(c)
  \/ \E t \in Deadlines : Advance(t)

Spec == Init /\ [][Next]_vars

\* the same program with every kind of upstream failure, on one key
RetryNext ==
  \/ \E r \in RetryRequests : CallFresh(r[1], r[2])
  \/ \E r \in RetryRequests : CallJoin(r[1], r[2])
  \/ \E r \in RetryRequests : CallFetch(r[1], r[2])
  \/ \E f \in FetchIds : HttpOk(f, Payload(f))
  \/ \E f \in FetchIds, e \in RetryFailures : HttpFail(f, e[1], e[2])
  \/ \E f \in FetchIds : Wake(f)
  \/ \E f \in FetchIds : Finally(f)
  \/ \E c \in RetryCallers : ObserveOk(c)
  \/ \E c \in RetryCallers : ObserveErr(c)
  \/ \E c \in RetryCallers : FallbackOk(c, OpenMeteoPayload(c))
  \/ \E c \in RetryCallers : FallbackFail(c)
  \/ \E t \in Deadlines : Advance(t)

RetrySpec == Init /\ [][RetryNext]_vars

\* the retry specification with the scheduling of the platform: an http.get
\* settles (axios timeout), a timer fires, a promise callback runs
FairRetrySpec ==
  /\ RetrySpec
  /\ \A f \in FetchIds :
       /\ WF_vars(HttpOk(f, Payload(f)) \/ (\E e \in RetryFailures : HttpFail(f, e[1], e[2])))
       /\ WF_vars(Wake(f))
       /\ WF_vars(Finally(f))
  /\ WF_vars(\E t \in Deadlines : Advance(t))

\* ------------------------------------------------- forecastFactsForSchedule
\* the await of forecastFactsForSchedule on a fulfilled getForecast:
\* return { tz, ...summarizeForecastWindow(raw, startISO, endISO) }
FactsOk(c) ==
  /\ caller[c].call.fn = "forecastFactsForSchedule"
  /\ caller[c].pc = "done"
  /\ caller[c].res.ok
  /\ caller' = [caller EXCEPT ![c].pc = "returned"]
  /\ UNCHANGED <<now, API_KEY, cache, inflight, fetch, nfetch, ncalls, primaryOK, args, ret, db, pool, handler, mig>>

\* the await of forecastFactsForSchedule on a rejected getForecast:
\* catch { getOpenMeteoForecastWindow(...) }
FactsCatch(c) ==
  /\ caller[c].call.fn = "forecastFactsForSchedule"
  /\ caller[c].pc = "done"
  /\ ~caller[c].res.ok
  /\ caller' = [caller EXCEPT ![c] = [@ EXCEPT !.pc = "factsFallback", !.om = caller[c].om + 1]]
  /\ UNCHANGED <<now, API_KEY, cache, inflight, fetch, nfetch, ncalls, primaryOK, args, ret, db, pool, handler, mig>>

\* getOpenMeteoForecastWindow of the catch resolves: its summary is returned
FactsFallbackOk(c, d) ==
  /\ caller[c].pc = "factsFallback"
  /\ caller' = [caller EXCEPT ![c] = [@ EXCEPT !.pc = "returned", !.res = Resolved(d),
                                               !.via = "factsFallback"]]
  /\ UNCHANGED <<now, API_KEY, cache, inflight, fetch, nfetch, ncalls, primaryOK, args, ret, db, pool, handler, mig>>

\* getOpenMeteoForecastWindow of the catch rejects: the error leaves
\* forecastFactsForSchedule
FactsFallbackFail(c) ==
  /\ caller[c].pc = "factsFallback"
  /\ caller' = [caller EXCEPT ![c] = [@ EXCEPT !.pc = "returned", !.res = Rejected(OpenMeteoErr),
                                               !.via = "factsFallback"]]
  /\ UNCHANGED <<now, API_KEY, cache, inflight, fetch, nfetch, ncalls, primaryOK, args, ret, db, pool, handler, mig>>

\* the three entry points, invoked by two callers
EntryCallers == {1, 2}
EntryRequests == EntryCallers \X {CallA, CallF, CallFacts}
\* a fatal status, and a retryable one whose retry-after is 0 seconds
EntryFailures == {<<404, NotANumber>>, <<503, 0>>}

EntryNext ==
  \/ \E r \in EntryRequests : CallFresh(r[1], r[2])
  \/ \E r \in EntryRequests : CallJoin(r[1], r[2])
  \/ \E r \in EntryRequests : CallFetch(r[1], r[2])
  \/ \E f \in FetchIds : HttpOk(f, Payload(f))
  \/ \E f \in FetchIds, e \in EntryFailures : HttpFail(f, e[1], e[2])
  \/ \E f \in FetchIds : Wake(f)
  \/ \E f \in FetchIds : Finally(f)
  \/ \E c \in EntryCallers : ObserveOk(c)
  \/ \E c \in EntryCallers : ObserveErr(c)
  \/ \E c \in EntryCallers : FallbackOk(c, OpenMeteoPayload(c))
  \/ \E c \in EntryCallers : FallbackFail(c)
  \/ \E c \in EntryCallers : FactsOk(c)
  \/ \E c \in EntryCallers : FactsCatch(c)
  \/ \E c \in EntryCallers : FactsFallbackOk(c, OpenMeteoPayload(c))
  \/ \E c \in EntryCallers : FactsFallbackFail(c)
  \/ \E t \in Deadlines : Advance(t)

EntrySpec == Init /\ [][EntryNext]_vars

\* ------------------------------------------------ coordinates and cache keys
\* two invocations with every kind of coordinate, the primary provider up
CoordCallers == {1, 2}
CoordRequests == CoordCallers \X CoordCalls

CoordInit ==
  /\ now = 0
  /\ API_KEY = TRUE
  /\ cache = [k \in CoordKeys |-> NoEntry]
  /\ inflight = [k \in CoordKeys |-> 0]
  /\ fetch = [f \in FetchIds |-> NoFetch]
  /\ nfetch = 0
  /\ caller = [c \in Callers |-> IdleCaller]
  /\ ncalls = 0
  /\ primaryOK = {}
  /\ args = NoArgs
  /\ ret = NotRun
  /\ db = NoDb
  /\ pool = NoPool
  /\ handler = NoHandlers
  /\ mig = NoMigrations

CoordNext ==
  \/ \E r \in CoordRequests : CallInvalid(r[1], r[2])
  \/ \E r \in CoordRequests : CallFresh(r[1], r[2])
  \/ \E r \in CoordRequests : CallJoin(r[1], r[2])
  \/ \E r \in CoordRequests : CallFetch(r[1], r[2])
  \/ \E f \in FetchIds : HttpOk(f, Payload(f))
  \/ \E f \in FetchIds : Finally(f)
  \/ \E c \in CoordCallers : ObserveOk(c)
  \/ \E t \in Deadlines : Advance(t)

CoordSpec == CoordInit /\ [][CoordNext]_vars

\* ------------------------------------------------- summarizeForecastWindow
\* a field of a sample: a number x, or null / absent; temperatures in
\* degrees, wind speeds in hundredths of a m/s, visibilities in km,
\* probabilities in percent, accumulations in tenths of a mm
Value(x) == <<x>>
NullValue == <<>>

\* an ISO timestamp is a string, here the sequence of its character codes
Digit(d) == 48 + d
TwoDigits(n) == <<Digit(n \div 10), Digit(n % 10)>>
\* "2024-06-DDTHH:00:00"
IsoSeconds(day, hour) ==
  <<50, 48, 50, 52, 45, 48, 54, 45>> \o TwoDigits(day) \o <<84>> \o TwoDigits(hour)
    \o <<58, 48, 48, 58, 48, 48>>
\* DateTime.toUTC().toISO() of luxon: "2024-06-DDTHH:00:00.000Z"
toISO(day, hour) == IsoSeconds(day, hour) \o <<46, 48, 48, 48, 90>>
\* the same instant as a provider writes it without milliseconds:
\* "2024-06-DDTHH:00:00Z"
IsoNoMillis(day, hour) == IsoSeconds(day, hour) \o <<90>>

\* a <= b on strings: the code units are compared from the left, and a
\* proper prefix is the smaller one
RECURSIVE StrLE(_, _)
StrLE(a, b) ==
  IF a = <<>> THEN TRUE
  ELSE IF b = <<>> THEN FALSE
  ELSE IF Head(a) < Head(b) THEN TRUE
  ELSE IF Head(a) > Head(b) THEN FALSE
  ELSE StrLE(Tail(a), Tail(b))

\* the values of one hourly sample
NoValues == [temperature |-> NullValue, windSpeed |-> NullValue, windGust |-> NullValue,
             uvIndex |-> NullValue, visibility |-> NullValue,
             precipitationProbability |-> NullValue, rainAccumulation |-> NullValue,
             weatherCode |-> NullValue]

\* raw?.timelines?.hourly || raw?.data?.timelines?.hourly || []
hourlyOf(raw) == IF raw.shape \in {"timelines", "data.timelines"} THEN raw.hourly ELSE <<>>

PlusInfinity == 1000000
MinusInfinity == -1000000
Min2(a, b) == IF a <= b THEN a ELSE b
Max2(a, b) == IF a >= b THEN a ELSE b
\* Set.add on the codes in insertion order
AddCode(codes, c) == IF \E i \in 1..Len(codes) : codes[i] = c THEN codes ELSE Append(codes, c)

\* the loop body with a null visibility read as the number 0
Accumulate_nullAsZero(agg, v) ==
  [agg EXCEPT
     !.tempMin = IF v.temperature # NullValue THEN Min2(@, v.temperature[1]) ELSE @,
     !.tempMax = IF v.temperature # NullValue THEN Max2(@, v.temperature[1]) ELSE @,
     !.windMax_ms = IF v.windSpeed # NullValue THEN Max2(@, v.windSpeed[1]) ELSE @,
     !.gustMax_ms = IF v.windGust # NullValue THEN Max2(@, v.windGust[1]) ELSE @,
     !.uvMax = IF v.uvIndex # NullValue THEN Max2(@, v.uvIndex[1]) ELSE @,
     !.visMin_km = IF v.visibility # NullValue THEN Min2(@, v.visibility[1]) ELSE Min2(@, 0),
     !.precipProbMax = IF v.precipitationProbability # NullValue
                       THEN Max2(@, v.precipitationProbability[1]) ELSE @,
     !.precipMmTotal = IF v.rainAccumulation # NullValue THEN @ + v.rainAccumulation[1] ELSE @,
     !.codes = IF v.weatherCode # NullValue THEN AddCode(@, v.weatherCode[1]) ELSE @]

\* one pass of the loop for (const { v } of sel)
Accumulate(agg, v) ==
  [agg EXCEPT
     !.tempMin = IF v.temperature # NullValue THEN Min2(@, v.temperature[1]) ELSE @,
     !.tempMax = IF v.temperature # NullValue THEN Max2(@, v.temperature[1]) ELSE @,
     !.windMax_ms = IF v.windSpeed # NullValue THEN Max2(@, v.windSpeed[1]) ELSE @,
     !.gustMax_ms = IF v.windGust # NullValue THEN Max2(@, v.windGust[1]) ELSE @,
     !.uvMax = IF v.uvIndex # NullValue THEN Max2(@, v.uvIndex[1]) ELSE @,
     !.visMin_km = IF v.visibility # NullValue THEN Min2(@, v.visibility[1]) ELSE @,
     !.precipProbMax = IF v.precipitationProbability # NullValue
                       THEN Max2(@, v.precipitationProbability[1]) ELSE @,
     !.precipMmTotal = IF v.rainAccumulation # NullValue THEN @ + v.rainAccumulation[1] ELSE @,
     !.codes = IF v.weatherCode # NullValue THEN AddCode(@, v.weatherCode[1]) ELSE @]

RECURSIVE Reduce(_, _)
Reduce(agg, sel) ==
  IF sel = <<>> THEN agg ELSE Reduce(Accumulate(agg, Head(sel).values), Tail(sel))

\* +(ms * 3.6).toFixed(1), in tenths of a km/h; wind speeds are counted in
\* hundredths of a m/s, the precision of both providers, so that ms * 3.6 has
\* three decimals and toFixed(1) rounds it to the nearest tenth (never a tie:
\* 36 * ms is a multiple of 4 and never ends in 50)
KmhTenths_truncated(ms) == (ms * 36) \div 100

KmhTenths(ms) == (ms * 36 + 50) \div 100

\* the summary returned for a selection that is not empty
Summary(sel) ==
  LET agg == Reduce([hours |-> Len(sel), tempMin |-> PlusInfinity, tempMax |-> MinusInfinity,
                     windMax_ms |-> 0, gustMax_ms |-> 0, uvMax |-> 0,
                     visMin_km |-> PlusInfinity, precipProbMax |-> 0, precipMmTotal |-> 0,
                     codes |-> <<>>], sel)
  IN [hours |-> agg.hours,
      tempMin |-> IF agg.tempMin = PlusInfinity THEN NullValue ELSE Value(agg.tempMin),
      tempMax |-> IF agg.tempMax = MinusInfinity THEN NullValue ELSE Value(agg.tempMax),
      windMax_ms |-> agg.windMax_ms, gustMax_ms |-> agg.gustMax_ms, uvMax |-> agg.uvMax,
      visMin_km |-> IF agg.visMin_km = PlusInfinity THEN NullValue ELSE Value(agg.visMin_km),
      precipProbMax |-> agg.precipProbMax, precipMmTotal |-> agg.precipMmTotal,
      codes |-> agg.codes,
      windMax_kmh |-> IF agg.windMax_ms # 0 THEN Value(KmhTenths(agg.windMax_ms)) ELSE NullValue,
      gustMax_kmh |-> IF agg.gustMax_ms # 0 THEN Value(KmhTenths(agg.gustMax_ms)) ELSE NullValue]

\* the filter taking the samples between the two bounds in either order
InWindow_eitherOrder(h, startISO, endISO) ==
  \/ StrLE(startISO, h.time) /\ StrLE(h.time, endISO)
  \/ StrLE(endISO, h.time) /\ StrLE(h.time, startISO)

\* hourly.filter(h => h.time >= startISO && h.time <= endISO)
InWindow(h, startISO, endISO) == StrLE(startISO, h.time) /\ StrLE(h.time, endISO)

\* summarizeForecastWindow reading the samples as sorted by time: it stops at
\* the first sample after the end of the window
summarizeForecastWindow_sortedAssumed(raw, startISO, endISO) ==
  LET hourly == hourlyOf(raw)
      late == {i \in 1..Len(hourly) : ~StrLE(hourly[i].time, endISO)}
      upto == IF late = {} THEN Len(hourly)
              ELSE (CHOOSE i \in late : \A j \in late : i <= j) - 1
      sel == SelectSeq(SubSeq(hourly, 1, upto), LAMBDA h : InWindow(h, startISO, endISO))
  IN IF Len(hourly) = 0 THEN [hours |-> 0]
     ELSE IF Len(sel) = 0 THEN [hours |-> 0]
     ELSE Summary(sel)

\* summarizeForecastWindow without the return for an empty selection
summarizeForecastWindow_noEmptyReturn(raw, startISO, endISO) ==
  LET hourly == hourlyOf(raw)
      sel == SelectSeq(hourly, LAMBDA h : InWindow(h, startISO, endISO))
  IN IF Len(hourly) = 0 THEN [hours |-> 0] ELSE Summary(sel)

summarizeForecastWindow(raw, startISO, endISO) ==
  LET hourly == hourlyOf(raw)
      sel == SelectSeq(hourly, LAMBDA h : InWindow(h, startISO, endISO))
  IN IF Len(hourly) = 0 THEN [hours |-> 0]
     ELSE IF Len(sel) = 0 THEN [hours |-> 0]
     ELSE Summary(sel)

\* the inputs: hourly samples at the start, in the middle, at the end of and
\* after the window of WindowStart..WindowEnd, written with and without
\* milliseconds, with all their values or with none
SampleTimes ==
  {toISO(10, h) : h \in {13, 17, 22, 23}} \cup {IsoNoMillis(10, h) : h \in {13, 22}}
SampleValues ==
  {NoValues,
   [temperature |-> Value(15), windSpeed |-> Value(600), windGust |-> Value(900),
    uvIndex |-> Value(5), visibility |-> Value(10), precipitationProbability |-> Value(40),
    rainAccumulation |-> Value(2), weatherCode |-> Value(1001)]}
Samples == {[time |-> t, values |-> v] : t \in SampleTimes, v \in SampleValues}
Hourlies == UNION {[1..n -> Samples] : n \in 0..MaxSamples}
Raws == {[shape |-> s, hourly |-> h] : s \in {"timelines", "data.timelines"}, h \in Hourlies}
          \cup {[shape |-> "none", hourly |-> <<>>]}
WindowBounds == {toISO(10, 13), toISO(10, 22), IsoNoMillis(10, 22)}
SummaryArgs ==
  {[fn |-> "summarizeForecastWindow", raw |-> r, startISO |-> s, endISO |-> e] :
     r \in Raws, s \in WindowBounds, e \in WindowBounds}

SummaryInit ==
  /\ now = 0
  /\ API_KEY = TRUE
  /\ cache = [k \in Keys |-> NoEntry]
  /\ inflight = [k \in Keys |-> 0]
  /\ fetch = [f \in FetchIds |-> NoFetch]
  /\ nfetch = 0
  /\ caller = [c \in Callers |-> IdleCaller]
  /\ ncalls = 0
  /\ primaryOK = {}
  /\ args \in SummaryArgs
  /\ ret = NotRun
  /\ db = NoDb
  /\ pool = NoPool
  /\ handler = NoHandlers
  /\ mig = NoMigrations

Summarize ==
  /\ args.fn = "summarizeForecastWindow"
  /\ ~ret.done
  /\ ret' = Returns(summarizeForecastWindow(args.raw, args.startISO, args.endISO))
  /\ UNCHANGED <<now, API_KEY, cache, inflight, fetch, nfetch, caller, ncalls, primaryOK, args, db, pool, handler, mig>>

SummaryNext == Summarize

SummarySpec == SummaryInit /\ [][SummaryNext]_vars

\* the inputs of the reduction: up to MaxRows samples, each inside or after
\* the window; inside, with values that differ from sample to sample, that
\* repeat (the codes), that are zero, negative or null
RowValues ==
  {NoValues,
   [temperature |-> Value(10), windSpeed |-> Value(200), windGust |-> Value(450),
    uvIndex |-> Value(3), visibility |-> Value(10), precipitationProbability |-> Value(40),
    rainAccumulation |-> Value(2), weatherCode |-> Value(1000)],
   [temperature |-> Value(15), windSpeed |-> Value(600), windGust |-> Value(925),
    uvIndex |-> Value(5), visibility |-> Value(8), precipitationProbability |-> Value(10),
    rainAccumulation |-> Value(1), weatherCode |-> Value(1001)],
   [temperature |-> Value(12), windSpeed |-> Value(300), windGust |-> NullValue,
    uvIndex |-> NullValue, visibility |-> NullValue, precipitationProbability |-> NullValue,
    rainAccumulation |-> NullValue, weatherCode |-> Value(1000)],
   [temperature |-> Value(-3), windSpeed |-> Value(338), windGust |-> NullValue,
    uvIndex |-> Value(0), visibility |-> Value(16), precipitationProbability |-> NullValue,
    rainAccumulation |-> NullValue, weatherCode |-> NullValue],
   [temperature |-> NullValue, windSpeed |-> Value(0), windGust |-> Value(0),
    uvIndex |-> NullValue, visibility |-> NullValue, precipitationProbability |-> Value(0),
    rainAccumulation |-> Value(0), weatherCode |-> NullValue]}
\* a sample after the window, each of its values beyond those inside
LateRow ==
  [time |-> toISO(10, 23),
   values |-> [temperature |-> Value(40), windSpeed |-> Value(2000), windGust |-> Value(3000),
               uvIndex |-> Value(11), visibility |-> Value(1),
               precipitationProbability |-> Value(100), rainAccumulation |-> Value(50),
               weatherCode |-> Value(8000)]]
Rows == {[time |-> toISO(10, 17), values |-> v] : v \in RowValues} \cup {LateRow}
RowArgs ==
  {[fn |-> "summarizeForecastWindow", raw |-> [shape |-> "timelines", hourly |-> h],
    startISO |-> toISO(10, 13), endISO |-> toISO(10, 22)] :
     h \in UNION {[1..n -> Rows] : n \in 0..MaxRows}}

ReduceInit ==
  /\ now = 0
  /\ API_KEY = TRUE
  /\ cache = [k \in Keys |-> NoEntry]
  /\ inflight = [k \in Keys |-> 0]
  /\ fetch = [f \in FetchIds |-> NoFetch]
  /\ nfetch = 0
  /\ caller = [c \in Callers |-> IdleCaller]
  /\ ncalls = 0
  /\ primaryOK = {}
  /\ args \in RowArgs
  /\ ret = NotRun
  /\ db = NoDb
  /\ pool = NoPool
  /\ handler = NoHandlers
  /\ mig = NoMigrations

ReduceSpec == ReduceInit /\ [][SummaryNext]_vars

\* ------------------------------------ resolveTimezone, scheduleToUTCWindow
\* a JavaScript string
Text(s) == [type |-> "string", s |-> s]

\* x || y takes y when x is falsy: null, undefined, the empty string, 0 or NaN
Truthy(v) ==
  /\ v.type \notin {"null", "undefined"}
  /\ v # Text("")
  /\ ~(v.type = "number" /\ (v.m = 0 \/ ~v.finite))
Or(a, b) == IF Truthy(a) THEN a ELSE b

\* x ?? y takes y when x is null or undefined
Nullish(a, b) == IF a.type \in {"null", "undefined"} THEN b ELSE a

\* how a call ends: with a value, or with an exception
Normal(v) == [threw |-> FALSE, value |-> v]
Thrown == [threw |-> TRUE]

\* the zone map of tz-lookup where the inputs lie: Colombia, Japan, and the
\* sea around 0 N 0 E
ZoneAt(lat, lon) ==
  CASE lat.m \in -4000..13000 /\ lon.m \in -79000..-67000 -> Text("America/Bogota")
    [] lat.m \in 30000..46000 /\ lon.m \in 129000..146000 -> Text("Asia/Tokyo")
    [] OTHER -> Text("Etc/GMT")

\* tzLookup(lat, lon) of tz-lookup: a RangeError unless -90 <= lat <= 90 and
\* -180 <= lon <= 180 (false for NaN), else the zone of the map
tzLookup(lat, lon) ==
  IF /\ lat.finite /\ lon.finite
     /\ lat.m >= -90000 /\ lat.m <= 90000
     /\ lon.m >= -180000 /\ lon.m <= 180000
  THEN Normal(ZoneAt(lat, lon))
  ELSE Thrown

\* resolveTimezone without its catch
resolveTimezone_noCatch(lat, lon, scheduleTZ) ==
  IF Truthy(scheduleTZ) THEN Normal(scheduleTZ)
  ELSE tzLookup(Number(lat), Number(lon))

\* try { return scheduleTZ || tzLookup(Number(lat), Number(lon)) }
\* catch { return scheduleTZ || 'UTC' }
resolveTimezone(lat, lon, scheduleTZ) ==
  IF Truthy(scheduleTZ) THEN Normal(scheduleTZ)
  ELSE LET looked == tzLookup(Number(lat), Number(lon))
       IN IF ~looked.threw THEN looked
          ELSE IF Truthy(scheduleTZ) THEN Normal(scheduleTZ) ELSE Normal(Text("UTC"))

\* the inputs: coordinates in Colombia, in Japan (the latitude as a string),
\* null (0 N 0 E), out of range, undefined, not a number; a zone that is
\* absent, null, empty, that of the coordinates or another one, or no zone
\* at all
ZoneCoords ==
  {<<Num(4601), Num(-74070)>>, <<Str(35680), Num(139690)>>, <<Null, Null>>,
   <<Num(91000), Num(0)>>, <<Undefined, Undefined>>, <<Num(4601), StrText>>}
ZoneInputs ==
  {Undefined, Null, Text(""), Text("America/Bogota"), Text("Asia/Tokyo"), Text("Mars/Phobos")}
TimezoneArgs ==
  {[fn |-> "resolveTimezone", lat |-> c[1], lon |-> c[2], scheduleTZ |-> z] :
     c \in ZoneCoords, z \in ZoneInputs}

ResolveTimezone ==
  /\ args.fn = "resolveTimezone"
  /\ ~ret.done
  /\ ret' = Returns(resolveTimezone(args.lat, args.lon, args.scheduleTZ))
  /\ UNCHANGED <<now, API_KEY, cache, inflight, fetch, nfetch, caller, ncalls, primaryOK, args, db, pool, handler, mig>>

\* `${v}` in a template string
Template(v) ==
  CASE v.type = "string" -> v.s
    [] v.type = "null" -> "null"
    [] OTHER -> "undefined"

\* the default of a destructured parameter: taken when the property is
\* undefined, not when it is null
Default(v, d) == IF v.type = "undefined" THEN d ELSE v

\* the day of June 2024 that the text of a date denotes; 0 when it is none
DayOf(s) == IF s = "2024-06-10" THEN 10 ELSE 0
\* the hour that the text of a time of day denotes; -1 when it is none
HourOf(s) ==
  CASE s = "06:00" -> 6
    [] s = "08:00" -> 8
    [] s = "17:00" -> 17
    [] s = "22:00" -> 22
    [] OTHER -> -1
\* the hours that a zone is ahead of UTC in June 2024; NoZone for a name
\* that is no zone
NoZone == 100
ZoneOffset(z) ==
  CASE z = "America/Bogota" -> -5
    [] z = "Asia/Tokyo" -> 9
    [] z = "UTC" -> 0
    [] z = "Etc/GMT" -> 0
    [] OTHER -> NoZone

\* DateTime.fromISO(`${date}T${time}`, { zone: tz }): invalid when the text
\* is no date and time or the zone is none
fromISO(date, time, tz) ==
  [valid |-> DayOf(date) > 0 /\ HourOf(time) >= 0 /\ ZoneOffset(tz.s) # NoZone,
   day |-> DayOf(date), hour |-> HourOf(time), offset |-> ZoneOffset(tz.s)]

\* dt.toUTC().toISO(): null for an invalid DateTime
toUTCISO(dt) ==
  IF ~dt.valid THEN NullValue
  ELSE LET t == dt.day * 24 + dt.hour - dt.offset IN Value(toISO(t \div 24, t % 24))

scheduleToUTCWindow(schedule, lat, lon) ==
  LET horaInicio == Default(schedule.horaInicio, Text("08:00"))
      horaFin == Default(schedule.horaFin, Text("17:00"))
      tz == resolveTimezone(lat, lon, schedule.zonaHoraria)
  IN IF tz.threw THEN Thrown
     ELSE LET startLocal == fromISO(Template(schedule.fecha), Template(horaInicio), tz.value)
              endLocal == fromISO(Template(schedule.fecha), Template(horaFin), tz.value)
          IN Normal([tz |-> tz.value, startISO |-> toUTCISO(startLocal),
                     endISO |-> toUTCISO(endLocal),
                     startLocal |-> startLocal, endLocal |-> endLocal])

\* the inputs: a schedule with or without a date, its times absent
\* (undefined), null or given, with the zones and coordinates of
\* resolveTimezone
HoraInputs == {Undefined, Null, Text("06:00"), Text("22:00")}
Schedules ==
  {[fecha |-> f, horaInicio |-> s, horaFin |-> e, zonaHoraria |-> z] :
     f \in {Text("2024-06-10"), Null}, s \in HoraInputs, e \in HoraInputs, z \in ZoneInputs}
ScheduleArgs ==
  {[fn |-> "scheduleToUTCWindow", schedule |-> s, lat |-> c[1], lon |-> c[2]] :
     s \in Schedules, c \in ZoneCoords}

ScheduleToUTCWindow ==
  /\ args.fn = "scheduleToUTCWindow"
  /\ ~ret.done
  /\ ret' = Returns(scheduleToUTCWindow(args.schedule, args.lat, args.lon))
  /\ UNCHANGED <<now, API_KEY, cache, inflight, fetch, nfetch, caller, ncalls, primaryOK, args, db, pool, handler, mig>>

ScheduleInit ==
  /\ now = 0
  /\ API_KEY = TRUE
  /\ cache = [k \in Keys |-> NoEntry]
  /\ inflight = [k \in Keys |-> 0]
  /\ fetch = [f \in FetchIds |-> NoFetch]
  /\ nfetch = 0
  /\ caller = [c \in Callers |-> IdleCaller]
  /\ ncalls = 0
  /\ primaryOK = {}
  /\ args \in TimezoneArgs \cup ScheduleArgs
  /\ ret = NotRun
  /\ db = NoDb
  /\ pool = NoPool
  /\ handler = NoHandlers
  /\ mig = NoMigrations

ScheduleNext ==
  \/ ResolveTimezone
  \/ ScheduleToUTCWindow

ScheduleSpec == ScheduleInit /\ [][ScheduleNext]_vars

\* ------------------------------------------------------------- normalizers
\* the numbers of an observation are counted in hundredths of their unit
\* (18.5 degrees is Num(1850)); a weather code is its own number
CodeMap ==
  [c \in {1000, 1100, 1101, 1102, 1001, 2000, 2100, 3000, 3001, 3002, 4000, 4200, 4001,
          4201, 5000, 5100, 5001, 5101, 6000, 6200, 6001, 7000, 7102, 7101, 8000} |->
     CASE c = 1000 -> "Despejado" [] c = 1100 -> "Mayormente despejado"
       [] c = 1101 -> "Parcialmente nublado" [] c = 1102 -> "Mayormente nublado"
       [] c = 1001 -> "Nublado" [] c = 2000 -> "Niebla" [] c = 2100 -> "Niebla ligera"
       [] c = 3000 -> "Viento ligero" [] c = 3001 -> "Viento" [] c = 3002 -> "Viento fuerte"
       [] c = 4000 -> "Llovizna" [] c = 4200 -> "Lluvia ligera" [] c = 4001 -> "Lluvia"
       [] c = 4201 -> "Lluvia intensa" [] c = 5000 -> "Nieve" [] c = 5100 -> "Nieve ligera"
       [] c = 5001 -> "Chubascos de nieve" [] c = 5101 -> "Nieve intensa"
       [] c = 6000 -> "Aguanieve" [] c = 6200 -> "Aguanieve ligera"
       [] c = 6001 -> "Aguanieve intensa" [] c = 7000 -> "Granizo"
       [] c = 7102 -> "Granizo ligero" [] c = 7101 -> "Granizo intenso"
       [] c = 8000 -> "Tormenta"]

\* map[code] ?? '-' (the text for an unknown code is a dash)
codeToText(code) ==
  IF code.type = "number" /\ code.finite /\ code.m \in DOMAIN CodeMap
  THEN Text(CodeMap[code.m])
  ELSE Text("-")

normalizeRealtimePayload(apiData) ==
  LET v == apiData.data.values
      loc == apiData.location
  IN [at |-> Or(apiData.data.time, Null),
      lat |-> Nullish(loc.lat, Null),
      lon |-> Nullish(loc.lon, Null),
      name |-> Nullish(loc.name, Null),
      temperatura |-> Nullish(v.temperature, Null),
      sensacionTermica |-> Nullish(v.temperatureApparent, Null),
      humedad |-> Nullish(v.humidity, Null),
      viento |-> Nullish(v.windSpeed, Null),
      vientoRafaga |-> Nullish(v.windGust, Null),
      direccionViento |-> Nullish(v.windDirection, Null),
      presion |-> Nullish(v.pressureSurfaceLevel, Null),
      visibilidad |-> Nullish(v.visibility, Null),
      uv |-> Nullish(v.uvIndex, Null),
      uvHealthConcern |-> Nullish(v.uvHealthConcern, Null),
      precipitacion |-> Nullish(v.rainIntensity, Nullish(v.precipitationIntensity, Num(0))),
      probPrecipitacion |-> Nullish(v.precipitationProbability, Null),
      nubes |-> Nullish(v.cloudCover, Null),
      weatherCode |-> Nullish(v.weatherCode, Null),
      weatherText |-> codeToText(v.weatherCode)]

\* typeof x === 'number' ? +(x / 1000).toFixed(1) : null, metres to km with
\* one decimal (no input lies halfway between two tenths)
KmOneDecimal(x) ==
  IF x.type # "number" THEN Null
  ELSE IF ~x.finite THEN NaN
  ELSE Num(10 * ((x.m + 5000) \div 10000))

normalizeOpenMeteo(api) ==
  LET c == api.current
  IN [at |-> Or(c.time, Null),
      lat |-> Nullish(api.latitude, Null),
      lon |-> Nullish(api.longitude, Null),
      name |-> Null,
      temperatura |-> Nullish(c.temperature_2m, Null),
      sensacionTermica |-> Nullish(c.apparent_temperature, Null),
      humedad |-> Nullish(c.relative_humidity_2m, Null),
      viento |-> Nullish(c.wind_speed_10m, Null),
      vientoRafaga |-> Nullish(c.wind_gusts_10m, Null),
      direccionViento |-> Nullish(c.wind_direction_10m, Null),
      presion |-> Null,
      visibilidad |-> KmOneDecimal(c.visibility),
      uv |-> Nullish(c.uv_index, Null),
      uvHealthConcern |-> Null,
      precipitacion |-> Nullish(c.precipitation, Num(0)),
      probPrecipitacion |-> Null,
      nubes |-> Null,
      weatherCode |-> Null,
      weatherText |-> Text("Datos por Open-Meteo")]

denormalizeToTomorrowShape(n) ==
  [data |-> [time |-> n.at,
             values |-> [temperature |-> n.temperatura,
                         temperatureApparent |-> n.sensacionTermica,
                         humidity |-> n.humedad,
                         windSpeed |-> n.viento,
                         windGust |-> n.vientoRafaga,
                         windDirection |-> n.direccionViento,
                         pressureSurfaceLevel |-> n.presion,
                         visibility |-> n.visibilidad,
                         uvIndex |-> n.uv,
                         uvHealthConcern |-> Undefined,
                         precipitationProbability |-> n.probPrecipitacion,
                         rainIntensity |-> n.precipitacion,
                         precipitationIntensity |-> Undefined,
                         cloudCover |-> n.nubes,
                         weatherCode |-> n.weatherCode]],
   location |-> [lat |-> n.lat, lon |-> n.lon, name |-> n.name]]

\* ---------------------------------------------------------------- quickRules
\* a comparison with NaN is false
AtLeast(x, k) == x.finite /\ x.m >= k
AtMost(x, k) == x.finite /\ x.m <= k
MoreThan(x, k) == x.finite /\ x.m > k

\* quickRules with every tier that is met, not only the most severe one
quickRules_everyTier(rec) ==
  LET t == Number(Nullish(rec.temperatura, Num(0)))
      uv == Number(Nullish(rec.uv, Num(0)))
      wind == Number(Nullish(rec.viento, Num(0)))
      rain == Number(Nullish(rec.precipitacion, Num(0)))
      windKmh == [finite |-> wind.finite, m |-> wind.m * 36]
      out ==
        (IF AtLeast(t, 3500) THEN <<"Alerta por calor extremo">> ELSE <<>>)
        \o (IF AtLeast(t, 3000) THEN <<"Calor moderado">> ELSE <<>>)
        \o (IF AtMost(t, 500) THEN <<"Frio severo">> ELSE <<>>)
        \o (IF AtLeast(uv, 600) THEN <<"UV alto">> ELSE <<>>)
        \o (IF AtLeast(windKmh, 60000) THEN <<"Viento muy fuerte">>
            ELSE IF AtLeast(windKmh, 45000) THEN <<"Viento fuerte">>
            ELSE IF AtLeast(windKmh, 30000) THEN <<"Viento moderado">>
            ELSE <<>>)
        \o (IF AtLeast(rain, 3000) THEN <<"Lluvia intensa">>
            ELSE IF MoreThan(rain, 0) THEN <<"Lluvia ligera">>
            ELSE <<>>)
  IN IF Len(out) = 0 THEN <<"Condiciones normales">> ELSE out

\* the advisories, each named by the words it starts with; the numbers are in
\* hundredths (degrees, UV index, m/s, mm), windKmh in thousandths of a km/h
quickRules(rec) ==
  LET t == Number(Nullish(rec.temperatura, Num(0)))
      uv == Number(Nullish(rec.uv, Num(0)))
      wind == Number(Nullish(rec.viento, Num(0)))
      rain == Number(Nullish(rec.precipitacion, Num(0)))
      windKmh == [finite |-> wind.finite, m |-> wind.m * 36]
      out ==
        (IF AtLeast(t, 3500) THEN <<"Alerta por calor extremo">>
         ELSE IF AtLeast(t, 3000) THEN <<"Calor moderado">>
         ELSE IF AtMost(t, 500) THEN <<"Frio severo">>
         ELSE <<>>)
        \o (IF AtLeast(uv, 600) THEN <<"UV alto">> ELSE <<>>)
        \o (IF AtLeast(windKmh, 60000) THEN <<"Viento muy fuerte">>
            ELSE IF AtLeast(windKmh, 45000) THEN <<"Viento fuerte">>
            ELSE IF AtLeast(windKmh, 30000) THEN <<"Viento moderado">>
            ELSE <<>>)
        \o (IF AtLeast(rain, 3000) THEN <<"Lluvia intensa">>
            ELSE IF MoreThan(rain, 0) THEN <<"Lluvia ligera">>
            ELSE <<>>)
  IN IF Len(out) = 0 THEN <<"Condiciones normales">> ELSE out

\* ------------------------------- the weather route: normalize, then the rules
\* a field as a provider sends it: zero, a number, null, or absent
FieldInputs == {Num(0), Num(250), Null, Undefined}

\* the answers of Open-Meteo: one with every field, one with none, and each
\* of them with one field replaced
FullOpenMeteo ==
  [latitude |-> Num(4601), longitude |-> Num(-74070),
   current |-> [time |-> Text("2024-06-10T13:00"), temperature_2m |-> Num(1850),
                apparent_temperature |-> Num(1790), relative_humidity_2m |-> Num(7200),
                wind_speed_10m |-> Num(338), wind_gusts_10m |-> Num(925),
                wind_direction_10m |-> Num(27000), uv_index |-> Num(650),
                visibility |-> Num(2414000), precipitation |-> Num(120)]]
EmptyOpenMeteo ==
  [latitude |-> Undefined, longitude |-> Undefined,
   current |-> [f \in DOMAIN FullOpenMeteo.current |-> Undefined]]
OpenMeteoApis ==
  {[b EXCEPT !.current[f] = v] :
     b \in {FullOpenMeteo, EmptyOpenMeteo}, f \in DOMAIN FullOpenMeteo.current,
     v \in FieldInputs}
  \cup {[b EXCEPT !.latitude = v] : b \in {FullOpenMeteo, EmptyOpenMeteo}, v \in FieldInputs}
  \cup {[b EXCEPT !.longitude = v] : b \in {FullOpenMeteo, EmptyOpenMeteo}, v \in FieldInputs}

\* the answers of Tomorrow.io, in the same way
FullTomorrow ==
  [data |-> [time |-> Text("2024-06-10T13:00:00Z"),
             values |-> [temperature |-> Num(3120), temperatureApparent |-> Num(3300),
                         humidity |-> Num(6000), windSpeed |-> Num(1250),
                         windGust |-> Num(1700), windDirection |-> Num(9000),
                         pressureSurfaceLevel |-> Num(101300), visibility |-> Num(1600),
                         uvIndex |-> Num(300), uvHealthConcern |-> Num(100),
                         rainIntensity |-> Num(50), precipitationIntensity |-> Num(70),
                         precipitationProbability |-> Num(4000), cloudCover |-> Num(8000),
                         weatherCode |-> Num(4200)]],
   location |-> [lat |-> Num(4601), lon |-> Num(-74070), name |-> Text("Bogota")]]
EmptyTomorrow ==
  [data |-> [time |-> Undefined,
             values |-> [f \in DOMAIN FullTomorrow.data.values |-> Undefined]],
   location |-> [f \in DOMAIN FullTomorrow.location |-> Undefined]]
TomorrowPayloads ==
  {[b EXCEPT !.data.values[f] = v] :
     b \in {FullTomorrow, EmptyTomorrow}, f \in DOMAIN FullTomorrow.data.values,
     v \in FieldInputs \cup {Num(1000)}}
  \cup {[b EXCEPT !.location[f] = v] :
          b \in {FullTomorrow, EmptyTomorrow}, f \in DOMAIN FullTomorrow.location,
          v \in FieldInputs}
  \cup {[b EXCEPT !.data.time = v] : b \in {FullTomorrow, EmptyTomorrow}, v \in FieldInputs}

WeatherArgs ==
  {[fn |-> "weather", provider |-> "tomorrow", answer |-> p] : p \in TomorrowPayloads}
  \cup {[fn |-> "weather", provider |-> "open-meteo", answer |-> a] : a \in OpenMeteoApis}

\* GET /:id/weather answered by the primary provider: getRealtime returns the
\* payload, the route normalizes it and applies the rules
WeatherPrimary ==
  /\ args.fn = "weather" /\ args.provider = "tomorrow"
  /\ ~ret.done
  /\ LET normalized == normalizeRealtimePayload(args.answer)
     IN ret' = Returns([realtime |-> args.answer, weather |-> normalized,
                        rules |-> quickRules(normalized)])
  /\ UNCHANGED <<now, API_KEY, cache, inflight, fetch, nfetch, caller, ncalls, primaryOK, args, db, pool, handler, mig>>

\* GET /:id/weather answered by the secondary provider: getOpenMeteo
\* normalizes the answer, getRealtime returns it in the shape of Tomorrow.io,
\* the route normalizes that and applies the rules
WeatherSecondary ==
  /\ args.fn = "weather" /\ args.provider = "open-meteo"
  /\ ~ret.done
  /\ LET om == normalizeOpenMeteo(args.answer)
         realtime == denormalizeToTomorrowShape(om)
         normalized == normalizeRealtimePayload(realtime)
     IN ret' = Returns([om |-> om, realtime |-> realtime, weather |-> normalized,
                        rules |-> quickRules(normalized)])
  /\ UNCHANGED <<now, API_KEY, cache, inflight, fetch, nfetch, caller, ncalls, primaryOK, args, db, pool, handler, mig>>

WeatherInit ==
  /\ now = 0
  /\ API_KEY = TRUE
  /\ cache = [k \in Keys |-> NoEntry]
  /\ inflight = [k \in Keys |-> 0]
  /\ fetch = [f \in FetchIds |-> NoFetch]
  /\ nfetch = 0
  /\ caller = [c \in Callers |-> IdleCaller]
  /\ ncalls = 0
  /\ primaryOK = {}
  /\ args \in WeatherArgs
  /\ ret = NotRun
  /\ db = NoDb
  /\ pool = NoPool
  /\ handler = NoHandlers
  /\ mig = NoMigrations

WeatherNext ==
  \/ WeatherPrimary
  \/ WeatherSecondary

WeatherSpec == WeatherInit /\ [][WeatherNext]_vars

\* ----------------------------------------------- getOpenMeteoForecastWindow
\* h.field?.[i]: undefined when the array is absent (here: empty) or shorter
At(arr, i) == IF i \in DOMAIN arr THEN arr[i] ELSE Undefined

\* the hourly sample built from row i of the answer; a time of Open-Meteo is
\* a local date and time of day, converted to a UTC timestamp
OpenMeteoRow(h, i, tz) ==
  [time |-> toUTCISO(fromISO(h.time[i].date, h.time[i].time, tz)),
   values |->
     [temperature |-> At(h.temperature_2m, i),
      temperatureApparent |-> At(h.apparent_temperature, i),
      humidity |-> At(h.relative_humidity_2m, i),
      windSpeed |-> At(h.wind_speed_10m, i),
      windGust |-> At(h.wind_gusts_10m, i),
      windDirection |-> At(h.wind_direction_10m, i),
      uvIndex |-> At(h.uv_index, i),
      visibility |-> KmOneDecimal(At(h.visibility, i)),
      precipitationProbability |-> At(h.precipitation_probability, i),
      rainAccumulation |-> Nullish(At(h.rain, i), Nullish(At(h.precipitation, i), Num(0))),
      weatherCode |-> Null]]

\* the value returned for the answer data: { data: { timelines: { hourly } } }
getOpenMeteoForecastWindow(data, tz) ==
  [shape |-> "data.timelines",
   hourly |-> [i \in DOMAIN data.hourly.time |-> OpenMeteoRow(data.hourly, i, tz)]]

\* the answers: two hours, each series complete, absent, with a null or a
\* zero in it, or shorter than the times
HourlyTimes ==
  <<[date |-> "2024-06-10", time |-> "08:00"], [date |-> "2024-06-10", time |-> "17:00"]>>
SeriesInputs == {<<>>, <<Null, Num(250)>>, <<Num(0), Null>>, <<Num(250)>>}
FullHourly ==
  [time |-> HourlyTimes, temperature_2m |-> <<Num(1850), Num(2100)>>,
   apparent_temperature |-> <<Num(1790), Num(2200)>>,
   relative_humidity_2m |-> <<Num(7200), Num(6500)>>,
   wind_speed_10m |-> <<Num(338), Num(600)>>, wind_gusts_10m |-> <<Num(925), Num(1100)>>,
   wind_direction_10m |-> <<Num(27000), Num(9000)>>, uv_index |-> <<Num(150), Num(650)>>,
   visibility |-> <<Num(2414000), Num(1000000)>>,
   precipitation_probability |-> <<Num(4000), Num(1000)>>,
   rain |-> <<Num(120), Num(10)>>, precipitation |-> <<Num(130), Num(20)>>]
EmptyHourly ==
  [f \in DOMAIN FullHourly |-> IF f = "time" THEN HourlyTimes ELSE <<>>]
OpenMeteoHourlies ==
  {[b EXCEPT ![f] = s] :
     b \in {FullHourly, EmptyHourly}, f \in DOMAIN FullHourly \ {"time"}, s \in SeriesInputs}
RowsArgs ==
  {[fn |-> "getOpenMeteoForecastWindow", data |-> [hourly |-> h], tz |-> Text(z)] :
     h \in OpenMeteoHourlies, z \in {"UTC", "America/Bogota"}}

GetOpenMeteoForecastWindow ==
  /\ args.fn = "getOpenMeteoForecastWindow"
  /\ ~ret.done
  /\ ret' = Returns(getOpenMeteoForecastWindow(args.data, args.tz))
  /\ UNCHANGED <<now, API_KEY, cache, inflight, fetch, nfetch, caller, ncalls, primaryOK, args, db, pool, handler, mig>>

RowsInit ==
  /\ now = 0
  /\ API_KEY = TRUE
  /\ cache = [k \in Keys |-> NoEntry]
  /\ inflight = [k \in Keys |-> 0]
  /\ fetch = [f \in FetchIds |-> NoFetch]
  /\ nfetch = 0
  /\ caller = [c \in Callers |-> IdleCaller]
  /\ ncalls = 0
  /\ primaryOK = {}
  /\ args \in RowsArgs
  /\ ret = NotRun
  /\ db = NoDb
  /\ pool = NoPool
  /\ handler = NoHandlers
  /\ mig = NoMigrations

RowsNext == GetOpenMeteoForecastWindow

RowsSpec == RowsInit /\ [][RowsNext]_vars

\* -------------------------------------------------- quickRules on its own
\* the observations: each reading below, at and above each of its thresholds
\* (30 km/h lie between 8.33 and 8.34 m/s, 45 km/h are 12.5 m/s, 60 km/h lie
\* between 16.66 and 16.67 m/s), missing, or not a number
RuleTemperatures ==
  {Null, Undefined, NaN, Num(-200), Num(500), Num(501), Num(2999), Num(3000), Num(3499),
   Num(3500)}
RuleUvs == {Null, Num(599), Num(600)}
RuleWinds == {Null, Num(833), Num(834), Num(1249), Num(1250), Num(1666), Num(1667)}
RuleRains == {Null, Num(0), Num(1), Num(2999), Num(3000)}
RulesArgs ==
  {[fn |-> "quickRules",
    rec |-> [temperatura |-> t, uv |-> u, viento |-> w, precipitacion |-> r]] :
     t \in RuleTemperatures, u \in RuleUvs, w \in RuleWinds, r \in RuleRains}

QuickRules ==
  /\ args.fn = "quickRules"
  /\ ~ret.done
  /\ ret' = Returns(quickRules(args.rec))
  /\ UNCHANGED <<now, API_KEY, cache, inflight, fetch, nfetch, caller, ncalls, primaryOK, args, db, pool, handler, mig>>

RulesInit ==
  /\ now = 0
  /\ API_KEY = TRUE
  /\ cache = [k \in Keys |-> NoEntry]
  /\ inflight = [k \in Keys |-> 0]
  /\ fetch = [f \in FetchIds |-> NoFetch]
  /\ nfetch = 0
  /\ caller = [c \in Callers |-> IdleCaller]
  /\ ncalls = 0
  /\ primaryOK = {}
  /\ args \in RulesArgs
  /\ ret = NotRun
  /\ db = NoDb
  /\ pool = NoPool
  /\ handler = NoHandlers
  /\ mig = NoMigrations

RulesNext == QuickRules

RulesSpec == RulesInit /\ [][RulesNext]_vars

\* --------------------------------------------------- routes/companies.js
\* getUserId: the x-user-id header as a number, when finite and positive;
\* 0 stands for null
getUserId(v) == IF isNum(v) /\ Number(v).m > 0 THEN Number(v).m ELSE 0

\* SELECT * FROM companies WHERE id = :id AND user_id = :uid: the id of the
\* row, 0 for none
loadOwnedCompany(id, userId) ==
  IF /\ isNum(id) /\ Number(id).m \in CompanyIds
     /\ userId # 0 /\ db.companies[Number(id).m] = userId
  THEN Number(id).m
  ELSE 0

\* DELETE FROM companies WHERE id = :id, with the rows of historial that
\* reference it (ON DELETE CASCADE)
DeleteCompanyRow(id) ==
  [db EXCEPT !.companies[id] = 0, !.historial = {r \in @ : r.company_id # id}]

\* the request of a step and the response to it: the status, and the ids of
\* the rows of companies and of historial that the body holds
Respond(route, header, id, status, companies, historial) ==
  /\ args' = [fn |-> "route", route |-> route, header |-> header, id |-> id]
  /\ ret' = Returns([status |-> status, companies |-> companies, historial |-> historial])

\* the x-user-id headers: none, user 1, user 2; the :id parameters: the
\* companies, and a text that is no number
Headers == {Undefined} \cup {Num(u) : u \in Users}
ParamIds == {Str(i) : i \in CompanyIds} \cup {StrText}

\* GET /
ListCompanies(h) ==
  /\ LET uid == getUserId(h)
     IN IF uid = 0 THEN Respond("GET /", h, Undefined, 401, {}, {})
        ELSE Respond("GET /", h, Undefined, 200,
                     {i \in CompanyIds : db.companies[i] = uid}, {})
  /\ UNCHANGED <<now, API_KEY, cache, inflight, fetch, nfetch, caller, ncalls, primaryOK, db, pool, handler, mig>>

\* POST /, with a body that passes CompanySchema or does not
PostCompany(h, valid) ==
  /\ db.lastCompany < MaxCompanies
  /\ LET uid == getUserId(h)
         id == db.lastCompany + 1
     IN IF uid = 0
        THEN Respond("POST /", h, Undefined, 401, {}, {}) /\ db' = db
        ELSE IF ~valid
        THEN Respond("POST /", h, Undefined, 400, {}, {}) /\ db' = db
        ELSE /\ Respond("POST /", h, Undefined, 201, {id}, {})
             /\ db' = [db EXCEPT !.companies[id] = uid, !.lastCompany = id]
  /\ UNCHANGED <<now, API_KEY, cache, inflight, fetch, nfetch, caller, ncalls, primaryOK, pool, handler, mig>>

\* GET /:id
GetCompany(h, p) ==
  /\ LET uid == getUserId(h)
         company == loadOwnedCompany(p, uid)
     IN IF uid = 0 THEN Respond("GET /:id", h, p, 401, {}, {})
        ELSE IF company = 0 THEN Respond("GET /:id", h, p, 404, {}, {})
        ELSE Respond("GET /:id", h, p, 200, {company}, {})
  /\ UNCHANGED <<now, API_KEY, cache, inflight, fetch, nfetch, caller, ncalls, primaryOK, db, pool, handler, mig>>

\* DELETE /:id, first definition: the row is deleted by its id alone
DeleteCompanyById(h, p) ==
  /\ LET id == Number(p)
     IN IF ~id.finite
        THEN Respond("DELETE /:id", h, p, 400, {}, {}) /\ db' = db
        ELSE IF id.m \notin CompanyIds \/ db.companies[id.m] = 0
        THEN Respond("DELETE /:id", h, p, 404, {}, {}) /\ db' = db
        ELSE Respond("DELETE /:id", h, p, 204, {}, {}) /\ db' = DeleteCompanyRow(id.m)
  /\ UNCHANGED <<now, API_KEY, cache, inflight, fetch, nfetch, caller, ncalls, primaryOK, pool, handler, mig>>

\* DELETE /:id, second definition: the row is loaded and deleted with
\* user_id = :uid
DeleteCompany(h, p) ==
  /\ LET uid == getUserId(h)
         company == loadOwnedCompany(p, uid)
     IN IF uid = 0
        THEN Respond("DELETE /:id", h, p, 401, {}, {}) /\ db' = db
        ELSE IF company = 0
        THEN Respond("DELETE /:id", h, p, 404, {}, {}) /\ db' = db
        ELSE Respond("DELETE /:id", h, p, 204, {}, {}) /\ db' = DeleteCompanyRow(company)
  /\ UNCHANGED <<now, API_KEY, cache, inflight, fetch, nfetch, caller, ncalls, primaryOK, pool, handler, mig>>

\* GET /:id/weather; the weather of the company comes or getRealtime throws
GetWeather(h, p, ok) ==
  /\ LET uid == getUserId(h)
         company == loadOwnedCompany(p, uid)
     IN IF uid = 0 THEN Respond("GET /:id/weather", h, p, 401, {}, {})
        ELSE IF company = 0 THEN Respond("GET /:id/weather", h, p, 404, {}, {})
        ELSE IF ~ok THEN Respond("GET /:id/weather", h, p, 500, {}, {})
        ELSE Respond("GET /:id/weather", h, p, 200, {company}, {})
  /\ UNCHANGED <<now, API_KEY, cache, inflight, fetch, nfetch, caller, ncalls, primaryOK, db, pool, handler, mig>>

\* GET /:id/historial and its alias GET /:id/history
ListHistorial(route, h, p) ==
  /\ route \in {"GET /:id/historial", "GET /:id/history"}
  /\ LET uid == getUserId(h)
         company == loadOwnedCompany(p, uid)
     IN IF uid = 0 THEN Respond(route, h, p, 401, {}, {})
        ELSE IF company = 0 THEN Respond(route, h, p, 404, {}, {})
        ELSE Respond(route, h, p, 200, {},
                     {r.id : r \in {x \in db.historial :
                                      x.user_id = uid /\ x.company_id = company}})
  /\ UNCHANGED <<now, API_KEY, cache, inflight, fetch, nfetch, caller, ncalls, primaryOK, db, pool, handler, mig>>

\* DELETE /:id/historial and its alias DELETE /:id/history
ClearHistorial(route, h, p) ==
  /\ route \in {"DELETE /:id/historial", "DELETE /:id/history"}
  /\ LET uid == getUserId(h)
         company == loadOwnedCompany(p, uid)
     IN IF uid = 0 THEN Respond(route, h, p, 401, {}, {}) /\ db' = db
        ELSE IF company = 0 THEN Respond(route, h, p, 404, {}, {}) /\ db' = db
        ELSE /\ Respond(route, h, p, 200, {}, {})
             /\ db' = [db EXCEPT !.historial =
                         {r \in @ : ~(r.user_id = uid /\ r.company_id = company)}]
  /\ UNCHANGED <<now, API_KEY, cache, inflight, fetch, nfetch, caller, ncalls, primaryOK, pool, handler, mig>>

\* POST /:id/advanced-query with a message that is empty or not, and POST
\* /:id/history with or without a prompt: a row of historial is inserted
InsertHistorial(route, h, p, filled) ==
  /\ route \in {"POST /:id/advanced-query", "POST /:id/history"}
  /\ db.lastHistorial < MaxHistorial
  /\ LET uid == getUserId(h)
         company == loadOwnedCompany(p, uid)
         id == db.lastHistorial + 1
     IN IF uid = 0 THEN Respond(route, h, p, 401, {}, {}) /\ db' = db
        ELSE IF company = 0 THEN Respond(route, h, p, 404, {}, {}) /\ db' = db
        ELSE IF ~filled THEN Respond(route, h, p, 400, {}, {}) /\ db' = db
        ELSE /\ Respond(route, h, p, 200,
                        IF route = "POST /:id/advanced-query" THEN {company} ELSE {}, {id})
             /\ db' = [db EXCEPT !.lastHistorial = id,
                                 !.historial = @ \cup {[id |-> id, user_id |-> uid,
                                                        company_id |-> company]}]
  /\ UNCHANGED <<now, API_KEY, cache, inflight, fetch, nfetch, caller, ncalls, primaryOK, pool, handler, mig>>

RouteInit ==
  /\ now = 0
  /\ API_KEY = TRUE
  /\ cache = [k \in Keys |-> NoEntry]
  /\ inflight = [k \in Keys |-> 0]
  /\ fetch = [f \in FetchIds |-> NoFetch]
  /\ nfetch = 0
  /\ caller = [c \in Callers |-> IdleCaller]
  /\ ncalls = 0
  /\ primaryOK = {}
  /\ args = NoArgs
  /\ ret = NotRun
  /\ db = SeedDb
  /\ pool = NoPool
  /\ handler = NoHandlers
  /\ mig = NoMigrations

RouteNext ==
  \/ \E h \in Headers : ListCompanies(h)
  \/ \E h \in Headers, valid \in BOOLEAN : PostCompany(h, valid)
  \/ \E h \in Headers, p \in ParamIds : GetCompany(h, p)
  \/ \E h \in Headers, p \in ParamIds : DeleteCompanyById(h, p)
  \/ \E h \in Headers, p \in ParamIds : DeleteCompany(h, p)
  \/ \E h \in Headers, p \in ParamIds, ok \in BOOLEAN : GetWeather(h, p, ok)
  \/ \E h \in Headers, p \in ParamIds :
       \E route \in {"GET /:id/historial", "GET /:id/history"} : ListHistorial(route, h, p)
  \/ \E h \in Headers, p \in ParamIds :
       \E route \in {"DELETE /:id/historial", "DELETE /:id/history"} :
         ClearHistorial(route, h, p)
  \/ \E h \in Headers, p \in ParamIds, filled \in BOOLEAN :
       \E route \in {"POST /:id/advanced-query", "POST /:id/history"} :
         InsertHistorial(route, h, p, filled)

RouteSpec == RouteInit /\ [][RouteNext]_vars

\* ------------------------------------------------- the guard of /api/companies
\* a token names the user of its payload and carries a signature that
\* jwt.verify accepts or rejects
Tokens == {[type |-> "token", id |-> u, signed |-> s] : u \in Users, s \in BOOLEAN}

\* jwt.verify(token, secret): the payload, or an exception
jwtVerify(t) == IF t.signed THEN Normal([type |-> "object", id |-> Num(t.id)]) ELSE Thrown

\* m?.[1] || req.cookies?.token, m the match of /^Bearer\s+(.+)$/i on the
\* Authorization header
tokenOf(req) ==
  IF req.authorization.type = "string" /\ req.authorization.scheme = "Bearer"
  THEN req.authorization.token
  ELSE req.cookie

\* the outcome of a middleware: next() with req.user set, or a response
Passed(user) == [next |-> TRUE, status |-> 0, user |-> user]
Refused(status) == [next |-> FALSE, status |-> status, user |-> Undefined]

\* auth of server.js: a verified token, or 401
auth(req) ==
  LET token == tokenOf(req)
  IN IF token.type = "undefined" THEN Refused(401)
     ELSE IF jwtVerify(token).threw THEN Refused(401)
     ELSE Passed(jwtVerify(token).value)

\* authOrHeader: a verified token, else a finite positive x-user-id, else 401
authOrHeader(req) ==
  LET token == tokenOf(req)
      n == Number(req.xuser)
  IN IF token.type # "undefined" /\ ~jwtVerify(token).threw
     THEN Passed(jwtVerify(token).value)
     ELSE IF n.finite /\ n.m > 0 THEN Passed([type |-> "object", id |-> Num(n.m)])
     ELSE Refused(401)

\* app.use('/api/companies', guard, companiesRouter): the handler runs when
\* the guard calls next(), under getUserId(req) = req.user?.id ?? x-user-id
Serve(guard, req) ==
  IF ~guard.next THEN [reached |-> FALSE, status |-> guard.status, uid |-> 0]
  ELSE LET uid == getUserId(Nullish(IF guard.user.type = "object" THEN guard.user.id
                                    ELSE Undefined, req.xuser))
       IN [reached |-> TRUE, status |-> IF uid = 0 THEN 401 ELSE 200, uid |-> uid]

\* the requests: an Authorization header that is absent, a bearer token or
\* another scheme; a token cookie or none; an x-user-id header or none
AuthRequests ==
  {[fn |-> "request", authorization |-> a, cookie |-> c, xuser |-> x] :
     a \in {Undefined} \cup {[type |-> "string", scheme |-> s, token |-> t] :
                               s \in {"Bearer", "Basic"}, t \in Tokens},
     c \in {Undefined} \cup Tokens,
     x \in {Undefined, StrText} \cup {Num(u) : u \in Users}}

\* a request to the application of server.js
ServeAuth ==
  /\ args.fn = "request"
  /\ ~ret.done
  /\ ret' = Returns(Serve(auth(args), args))
  /\ UNCHANGED <<now, API_KEY, cache, inflight, fetch, nfetch, caller, ncalls, primaryOK, args, db, pool, handler, mig>>

\* a request to the application that mounts the router behind authOrHeader
ServeAuthOrHeader ==
  /\ args.fn = "request"
  /\ ~ret.done
  /\ ret' = Returns(Serve(authOrHeader(args), args))
  /\ UNCHANGED <<now, API_KEY, cache, inflight, fetch, nfetch, caller, ncalls, primaryOK, args, db, pool, handler, mig>>

AuthInit ==
  /\ now = 0
  /\ API_KEY = TRUE
  /\ cache = [k \in Keys |-> NoEntry]
  /\ inflight = [k \in Keys |-> 0]
  /\ fetch = [f \in FetchIds |-> NoFetch]
  /\ nfetch = 0
  /\ caller = [c \in Callers |-> IdleCaller]
  /\ ncalls = 0
  /\ primaryOK = {}
  /\ args \in AuthRequests
  /\ ret = NotRun
  /\ db = NoDb
  /\ pool = NoPool
  /\ handler = NoHandlers
  /\ mig = NoMigrations

AuthNext == ServeAuth \/ ServeAuthOrHeader

AuthSpec == AuthInit /\ [][AuthNext]_vars

\* ------------------------------ forecastFactsForSchedule: window and summary
\* h.time >= startISO && h.time <= endISO with a bound that toISO() gave as
\* null: no sample is selected
summarizeWindow(raw, window) ==
  IF window.startISO = NullValue \/ window.endISO = NullValue THEN [hours |-> 0]
  ELSE summarizeForecastWindow(raw, window.startISO[1], window.endISO[1])

\* const { tz, startISO, endISO } = scheduleToUTCWindow(schedule, lat, lon);
\* return { tz, ...summarizeForecastWindow(raw, startISO, endISO) }, raw
\* being what getForecast or the secondary provider gave
forecastFacts(schedule, lat, lon, raw) ==
  LET window == scheduleToUTCWindow(schedule, lat, lon)
  IN IF window.threw THEN Thrown
     ELSE Normal([tz |-> window.value.tz, startISO |-> window.value.startISO,
                  endISO |-> window.value.endISO,
                  facts |-> summarizeWindow(raw, window.value)])

\* the inputs: a day shift, a night shift that ends before it starts, the
\* default times, in Bogota and in Tokyo, over the forecasts of Raws
ShiftSchedules ==
  {[fecha |-> Text("2024-06-10"), horaInicio |-> s, horaFin |-> e, zonaHoraria |-> z] :
     s \in {Undefined, Text("06:00"), Text("22:00")},
     e \in {Undefined, Text("06:00"), Text("22:00")},
     z \in {Text("America/Bogota"), Text("Asia/Tokyo")}}
FactsArgs ==
  {[fn |-> "forecastFacts", schedule |-> s, lat |-> Num(4601), lon |-> Num(-74070), raw |-> r] :
     s \in ShiftSchedules, r \in Raws}

ForecastFacts ==
  /\ args.fn = "forecastFacts"
  /\ ~ret.done
  /\ ret' = Returns(forecastFacts(args.schedule, args.lat, args.lon, args.raw))
  /\ UNCHANGED <<now, API_KEY, cache, inflight, fetch, nfetch, caller, ncalls, primaryOK, args, db, pool, handler, mig>>

FactsInit ==
  /\ now = 0
  /\ API_KEY = TRUE
  /\ cache = [k \in Keys |-> NoEntry]
  /\ inflight = [k \in Keys |-> 0]
  /\ fetch = [f \in FetchIds |-> NoFetch]
  /\ nfetch = 0
  /\ caller = [c \in Callers |-> IdleCaller]
  /\ ncalls = 0
  /\ primaryOK = {}
  /\ args \in FactsArgs
  /\ ret = NotRun
  /\ db = NoDb
  /\ pool = NoPool
  /\ handler = NoHandlers
  /\ mig = NoMigrations

FactsSpec == FactsInit /\ [][ForecastFacts]_vars

\* ------------------------------------ the advanced query: its weather facts
\* what a call of a provider gives to the advanced query: a forecast or an
\* observation, or an exception that leaves the handler
Failed == [threw |-> TRUE]

\* !weatherFacts?.hours with no fallback ever taken
NoHours_never(facts) == FALSE

\* !weatherFacts?.hours
NoHours(facts) == facts.hours = 0

\* the facts synthesized from the realtime observation rt: one hour, with
\* the defaults of ?? for the values that it lacks
RealtimeFacts(tz, rt) ==
  LET v == IF rt.shape = "data" THEN rt.values
           ELSE NoValues @@ [rainIntensity |-> NullValue, precipitationIntensity |-> NullValue]
      OrZero(x) == IF x = NullValue THEN 0 ELSE x[1]
  IN [tz |-> tz, hours |-> 1, tempMin |-> v.temperature, tempMax |-> v.temperature,
      windMax_ms |-> OrZero(v.windSpeed), gustMax_ms |-> OrZero(v.windGust),
      uvMax |-> OrZero(v.uvIndex), visMin_km |-> v.visibility,
      precipProbMax |-> OrZero(v.precipitationProbability),
      precipMmTotal |-> IF v.rainIntensity # NullValue THEN v.rainIntensity[1]
                        ELSE OrZero(v.precipitationIntensity),
      codes |-> IF v.weatherCode # NullValue THEN <<v.weatherCode[1]>> ELSE <<>>]

\* the facts of a summary as each entry point keeps them:
\* planAndRecommendFromMessage spreads the summary after tz, the route keeps
\* the summary
FactsOf(entry, tz, summary) == IF entry = "plan" THEN [tz |-> tz] @@ summary ELSE summary

\* the position of an advanced query that has made the calls of trace
Running(pc, trace, facts) == [done |-> FALSE, pc |-> pc, trace |-> trace, weatherFacts |-> facts]
\* the handler ends: with the recommendation made from facts, or by the
\* exception of a provider, with none
Ended(trace, facts, recommended) ==
  Returns([trace |-> trace, weatherFacts |-> facts, recommended |-> recommended])
AfterFacts(trace, facts, next) ==
  IF NoHours(facts) THEN Running(next, trace, facts) ELSE Running("recommend", trace, facts)

\* the schedule of the query, 06:00 to 22:00 in Tokyo, and the instant of
\* the query: the window is 9 June 21:00 to 10 June 13:00 UTC, the next six
\* hours are 10 June 17:00 to 23:00 UTC
QuerySchedule ==
  [fecha |-> Text("2024-06-10"), horaInicio |-> Text("06:00"), horaFin |-> Text("22:00"),
   zonaHoraria |-> Text("Asia/Tokyo")]
QueryNow == toISO(10, 17)
QueryNowPlus6 == toISO(10, 23)

\* the answers of the providers: forecasts with a sample in the window of
\* the schedule, in the next six hours, in both or with none, and
\* observations with values, without, or of no shape
QueryForecasts ==
  {Failed, [shape |-> "none", hourly |-> <<>>]}
    \cup {[shape |-> "timelines", hourly |-> h] :
            h \in {<<>>, <<[time |-> toISO(10, 13), values |-> NoValues]>>,
                   <<[time |-> toISO(10, 22), values |-> NoValues]>>,
                   <<[time |-> toISO(10, 13), values |-> NoValues],
                     [time |-> toISO(10, 22), values |-> NoValues]>>}}
QueryObservations ==
  {Failed, [shape |-> "none"],
   [shape |-> "data",
    values |-> NoValues @@ [rainIntensity |-> NullValue, precipitationIntensity |-> NullValue]],
   [shape |-> "data",
    values |-> [NoValues EXCEPT !.temperature = Value(15), !.windSpeed = Value(600),
                                !.weatherCode = Value(1001)]
                 @@ [rainIntensity |-> NullValue, precipitationIntensity |-> Value(2)]]}
QueryArgs ==
  {[fn |-> "advancedQuery", entry |-> e, window |-> w, next6 |-> n, realtime |-> r] :
     e \in {"plan", "route"}, w \in QueryForecasts, n \in QueryForecasts,
     r \in QueryObservations}

\* step 1: the forecast of the exact window of the schedule and its summary
FactsOfWindow ==
  /\ args.fn = "advancedQuery"
  /\ ret = NotRun
  /\ LET window == scheduleToUTCWindow(QuerySchedule, Num(35680), Num(139690)).value
     IN ret' = IF args.window = Failed THEN Ended(<<"window">>, [hours |-> 0], FALSE)
               ELSE AfterFacts(<<"window">>,
                               FactsOf(args.entry, window.tz,
                                       summarizeWindow(args.window, window)), "next6")
  /\ UNCHANGED <<now, API_KEY, cache, inflight, fetch, nfetch, caller, ncalls, primaryOK, args, db, pool, handler, mig>>

\* step 2, if (!weatherFacts?.hours): the forecast of the next six hours
FactsOfNext6 ==
  /\ args.fn = "advancedQuery"
  /\ ~ret.done /\ ret # NotRun /\ ret.pc = "next6"
  /\ ret' = IF args.next6 = Failed
            THEN Ended(Append(ret.trace, "next6"), ret.weatherFacts, FALSE)
            ELSE AfterFacts(Append(ret.trace, "next6"),
                            FactsOf(args.entry, Text("Asia/Tokyo"),
                                    summarizeForecastWindow(args.next6, QueryNow, QueryNowPlus6)),
                            "realtime")
  /\ UNCHANGED <<now, API_KEY, cache, inflight, fetch, nfetch, caller, ncalls, primaryOK, args, db, pool, handler, mig>>

\* step 3, if (!weatherFacts?.hours) again: the realtime observation
FactsOfRealtime ==
  /\ args.fn = "advancedQuery"
  /\ ~ret.done /\ ret # NotRun /\ ret.pc = "realtime"
  /\ ret' = IF args.realtime = Failed
            THEN Ended(Append(ret.trace, "realtime"), ret.weatherFacts, FALSE)
            ELSE Running("recommend", Append(ret.trace, "realtime"),
                         RealtimeFacts(Text("Asia/Tokyo"), args.realtime))
  /\ UNCHANGED <<now, API_KEY, cache, inflight, fetch, nfetch, caller, ncalls, primaryOK, args, db, pool, handler, mig>>

\* generateCompanyRecommendations({ company, schedule, weatherFacts })
Recommend ==
  /\ args.fn = "advancedQuery"
  /\ ~ret.done /\ ret # NotRun /\ ret.pc = "recommend"
  /\ ret' = Ended(ret.trace, ret.weatherFacts, TRUE)
  /\ UNCHANGED <<now, API_KEY, cache, inflight, fetch, nfetch, caller, ncalls, primaryOK, args, db, pool, handler, mig>>

QueryInit ==
  /\ now = 0
  /\ API_KEY = TRUE
  /\ cache = [k \in Keys |-> NoEntry]
  /\ inflight = [k \in Keys |-> 0]
  /\ fetch = [f \in FetchIds |-> NoFetch]
  /\ nfetch = 0
  /\ caller = [c \in Callers |-> IdleCaller]
  /\ ncalls = 0
  /\ primaryOK = {}
  /\ args \in QueryArgs
  /\ ret = NotRun
  /\ db = NoDb
  /\ pool = NoPool
  /\ handler = NoHandlers
  /\ mig = NoMigrations

QueryNext ==
  \/ FactsOfWindow
  \/ FactsOfNext6
  \/ FactsOfRealtime
  \/ Recommend

QuerySpec == QueryInit /\ [][QueryNext]_vars

\* ---------------------------------------------- relative dates in Spanish
\* a message is the pair of a word before the weekday ("" for none) and the
\* word of the weekday; a date is counted in days from today
\* .normalize('NFD').replace(/\p{Diacritic}/gu, ''): the word without accents
Unaccent(w) ==
  CASE w = "miércoles" -> "miercoles"
    [] w = "sábado" -> "sabado"
    [] w = "próximo" -> "proximo"
    [] w = "próx" -> "prox"
    [] OTHER -> w

\* Array.findIndex / indexOf counted from 0; -1 when w is no element
IndexOf(list, w) ==
  IF \E i \in 1..Len(list) : list[i] = w
  THEN (CHOOSE i \in 1..Len(list) : list[i] = w /\ \A j \in 1..(i - 1) : list[j] # w) - 1
  ELSE -1

\* the words that the second group of the pattern matches in a text without
\* accents, and the words of the first group
DayWords == {"domingo", "lunes", "martes", "miercoles", "jueves", "viernes", "sabado"}
PrefixWords == {"este", "proximo", "prox", "el"}

\* luxon DateTime.weekday (1 = Monday .. 7 = Sunday) of the day that lies
\* days after a day of weekday today
WeekdayAfter(today, days) == ((today - 1 + days) % 7) + 1

\* const DOW of weather.js
DOW == <<"domingo", "lunes", "martes", "miércoles", "miercoles", "jueves", "viernes",
         "sábado", "sabado">>

\* nextWeekday(base, targetDow, inclusive), base lying baseDays after today:
\* the days from today to the date returned
nextWeekday(today, baseDays, targetDow, inclusive) ==
  LET cur == WeekdayAfter(today, baseDays) % 7
      tgt == targetDow % 7
      delta == tgt - (cur % 7)
  IN baseDays + (IF delta < 0 \/ (~inclusive /\ delta = 0) THEN delta + 7 ELSE delta)

\* resolveRelativeDateSpanish(msg, tz) on a day of weekday today
resolveRelativeDateSpanish(msg, today) ==
  LET word == Unaccent(msg[2])
      prefix == IF Unaccent(msg[1]) \in PrefixWords THEN Unaccent(msg[1]) ELSE ""
      idx == IndexOf(DOW, word)
      wantsNext == prefix \in {"proximo", "prox"}
  IN IF word \in DayWords /\ idx >= 0
     THEN Value(nextWeekday(today, IF wantsNext THEN 1 ELSE 0, idx, ~wantsNext))
     ELSE NullValue

\* resolveRelativeDateES(msg, tz) of routes/companies.js, with its own DOW
resolveRelativeDateES(msg, today) ==
  LET word == Unaccent(msg[2])
      prefix == IF Unaccent(msg[1]) \in PrefixWords THEN Unaccent(msg[1]) ELSE ""
      tgt == IndexOf(<<"domingo", "lunes", "martes", "miercoles", "jueves", "viernes",
                       "sabado">>, word)
      cur0 == today % 7
      wantsNext == prefix \in {"proximo", "prox"}
      delta == (tgt - cur0 + 7) % 7
  IN IF word \in DayWords
     THEN Value(IF wantsNext /\ delta = 0 THEN 7 ELSE delta)
     ELSE NullValue

\* the inputs: every weekday of today; the seven weekdays with and without
\* their accents and a word that is no weekday; no word before it, este, el,
\* próximo in its spellings
DateArgs ==
  {[fn |-> f, msg |-> <<p, w>>, today |-> t] :
     f \in {"resolveRelativeDateSpanish", "resolveRelativeDateES"},
     p \in {"", "este", "el", "próximo", "proximo", "prox"},
     w \in DayWords \cup {"miércoles", "sábado", "turno"},
     t \in 1..7}

ResolveRelativeDateSpanish ==
  /\ args.fn = "resolveRelativeDateSpanish"
  /\ ~ret.done
  /\ ret' = Returns(resolveRelativeDateSpanish(args.msg, args.today))
  /\ UNCHANGED <<now, API_KEY, cache, inflight, fetch, nfetch, caller, ncalls, primaryOK, args, db, pool, handler, mig>>

ResolveRelativeDateES ==
  /\ args.fn = "resolveRelativeDateES"
  /\ ~ret.done
  /\ ret' = Returns(resolveRelativeDateES(args.msg, args.today))
  /\ UNCHANGED <<now, API_KEY, cache, inflight, fetch, nfetch, caller, ncalls, primaryOK, args, db, pool, handler, mig>>

DateInit ==
  /\ now = 0
  /\ API_KEY = TRUE
  /\ cache = [k \in Keys |-> NoEntry]
  /\ inflight = [k \in Keys |-> 0]
  /\ fetch = [f \in FetchIds |-> NoFetch]
  /\ nfetch = 0
  /\ caller = [c \in Callers |-> IdleCaller]
  /\ ncalls = 0
  /\ primaryOK = {}
  /\ args \in DateArgs
  /\ ret = NotRun
  /\ db = NoDb
  /\ pool = NoPool
  /\ handler = NoHandlers
  /\ mig = NoMigrations

DateNext == ResolveRelativeDateSpanish \/ ResolveRelativeDateES

DateSpec == DateInit /\ [][DateNext]_vars

\* --------------------------------------- the handlers that create a row
\* query(sql, params) is getPool().execute(sql, params): the pool runs the
\* statement on an idle connection, on a new one when none is idle, and
\* takes the connection back when the statement is done. Which idle
\* connection it hands out is the policy of the pool, not of this code.
Choices(pl) == IF pl.free # {} THEN pl.free ELSE {pl.made + 1}
Take(pl, c) == IF c \in pl.free THEN [pl EXCEPT !.free = @ \ {c}] ELSE [pl EXCEPT !.made = c]
Release(pl, c) == [pl EXCEPT !.free = @ \cup {c}]

\* INSERT INTO users, run on connection c: the tables and the pool after it
InsertUser(d, pl, c) ==
  [db |-> [d EXCEPT !.users = @ \cup {d.lastUser + 1}, !.lastUser = d.lastUser + 1],
   pool |-> [pl EXCEPT !.lastInsertId[c] = d.lastUser + 1],
   id |-> d.lastUser + 1]
\* INSERT INTO companies (user_id, ...) VALUES (:uid, ...), run on c
InsertCompany(d, pl, c, uid) ==
  [db |-> [d EXCEPT !.companies[d.lastCompany + 1] = uid, !.lastCompany = d.lastCompany + 1],
   pool |-> [pl EXCEPT !.lastInsertId[c] = d.lastCompany + 1],
   id |-> d.lastCompany + 1]
\* SELECT ... WHERE id = LAST_INSERT_ID(), run on connection c: the ids of
\* the rows of the table of the route
SelectLastInserted(d, pl, c, route) ==
  LET id == pl.lastInsertId[c]
  IN IF route = "register" THEN {id} \cap d.users
     ELSE {i \in {id} \cap CompanyIds : d.companies[i] # 0}

\* POST /api/auth/register with a valid body: up to the await of
\* SELECT id FROM users WHERE email = :email, run on connection c
Register(h, c) ==
  /\ handler[h].pc = "idle"
  /\ \A g \in Handlers : g < h => handler[g].pc # "idle"
  /\ c \in Choices(pool)
  /\ pool' = Take(pool, c)
  /\ handler' = [handler EXCEPT ![h] = [@ EXCEPT !.pc = "exists", !.route = "register",
                                                 !.conn = c]]
  /\ UNCHANGED <<now, API_KEY, cache, inflight, fetch, nfetch, caller, ncalls, primaryOK, args, ret, db, mig>>

\* no row has the email: on to await bcrypt.hash(password, 10)
ExistsDone(h) ==
  /\ handler[h].pc = "exists"
  /\ pool' = Release(pool, handler[h].conn)
  /\ handler' = [handler EXCEPT ![h] = [@ EXCEPT !.pc = "hash", !.conn = 0]]
  /\ UNCHANGED <<now, API_KEY, cache, inflight, fetch, nfetch, caller, ncalls, primaryOK, args, ret, db, mig>>

\* the hash is there: INSERT INTO users, run on connection c
Hashed(h, c) ==
  /\ handler[h].pc = "hash"
  /\ c \in Choices(pool)
  /\ LET done == InsertUser(db, Take(pool, c), c)
     IN /\ db' = done.db
        /\ pool' = done.pool
        /\ handler' = [handler EXCEPT ![h] = [@ EXCEPT !.pc = "insert", !.conn = c,
                                                       !.inserted = done.id]]
  /\ UNCHANGED <<now, API_KEY, cache, inflight, fetch, nfetch, caller, ncalls, primaryOK, args, ret, mig>>

\* POST /api/companies of user uid with a valid body: up to the await of
\* INSERT INTO companies, run on connection c
CreateCompany(h, uid, c) ==
  /\ handler[h].pc = "idle"
  /\ \A g \in Handlers : g < h => handler[g].pc # "idle"
  /\ c \in Choices(pool)
  /\ LET done == InsertCompany(db, Take(pool, c), c, uid)
     IN /\ db' = done.db
        /\ pool' = done.pool
        /\ handler' = [handler EXCEPT ![h] = [@ EXCEPT !.pc = "insert", !.route = "company",
                                                       !.uid = uid, !.conn = c,
                                                       !.inserted = done.id]]
  /\ UNCHANGED <<now, API_KEY, cache, inflight, fetch, nfetch, caller, ncalls, primaryOK, args, ret, mig>>

\* the INSERT is done and its connection is idle again: the handler sends
\* SELECT ... WHERE id = LAST_INSERT_ID(), which the pool runs on connection c
InsertDone(h, c) ==
  /\ handler[h].pc = "insert"
  /\ c \in Choices(Release(pool, handler[h].conn))
  /\ pool' = Take(Release(pool, handler[h].conn), c)
  /\ handler' = [handler EXCEPT ![h] = [@ EXCEPT !.pc = "select", !.conn = c,
                    !.rows = SelectLastInserted(db, pool, c, handler[h].route)]]
  /\ UNCHANGED <<now, API_KEY, cache, inflight, fetch, nfetch, caller, ncalls, primaryOK, args, ret, db, mig>>

\* the SELECT is done: const [u] = rows, and the response. register reads
\* u.id, a TypeError without a row, answered 500; POST /companies answers
\* 201 with the row or with nothing (body 0)
SelectDone(h) ==
  /\ handler[h].pc = "select"
  /\ pool' = Release(pool, handler[h].conn)
  /\ handler' = [handler EXCEPT ![h] =
       [@ EXCEPT !.pc = "done", !.conn = 0,
                 !.status = IF handler[h].route = "register" /\ handler[h].rows = {}
                            THEN 500 ELSE 201,
                 !.body = IF handler[h].rows = {} THEN 0
                          ELSE CHOOSE i \in handler[h].rows : TRUE]]
  /\ UNCHANGED <<now, API_KEY, cache, inflight, fetch, nfetch, caller, ncalls, primaryOK, args, ret, db, mig>>

PoolInit ==
  /\ now = 0
  /\ API_KEY = TRUE
  /\ cache = [k \in Keys |-> NoEntry]
  /\ inflight = [k \in Keys |-> 0]
  /\ fetch = [f \in FetchIds |-> NoFetch]
  /\ nfetch = 0
  /\ caller = [c \in Callers |-> IdleCaller]
  /\ ncalls = 0
  /\ primaryOK = {}
  /\ args = NoArgs
  /\ ret = NotRun
  /\ db = NoDb
  /\ pool = NoPool
  /\ handler = NoHandlers
  /\ mig = NoMigrations

PoolNext ==
  \/ \E h \in Handlers, c \in Conns : Register(h, c)
  \/ \E h \in Handlers : ExistsDone(h)
  \/ \E h \in Handlers, c \in Conns : Hashed(h, c)
  \/ \E h \in Handlers, u \in Users, c \in Conns : CreateCompany(h, u, c)
  \/ \E h \in Handlers, c \in Conns : InsertDone(h, c)
  \/ \E h \in Handlers : SelectDone(h)

PoolSpec == PoolInit /\ [][PoolNext]_vars

\* ------------------------------------------------------------ run(), migrate
\* the directory migrations/: a file is the digits of its name and whether
\* the name ends with .sql
MigrationsDir ==
  {[name |-> <<0, 0, 1>>, sql |-> TRUE], [name |-> <<0, 1, 0>>, sql |-> TRUE],
   [name |-> <<0, 0, 2>>, sql |-> TRUE], [name |-> <<0, 0, 3>>, sql |-> FALSE]}

\* Array.sort() on names: ascending in the order of strings
RECURSIVE SortNames(_)
SortNames(names) ==
  IF names = {} THEN <<>>
  ELSE LET first == CHOOSE n \in names : \A m \in names : StrLE(n, m)
       IN <<first>> \o SortNames(names \ {first})

\* fs.readdirSync(migrationsDir).filter(f => f.endsWith('.sql')).sort()
MigrationFiles == SortNames({f.name : f \in {g \in MigrationsDir : g.sql}})

\* npm run migrate: CREATE TABLE IF NOT EXISTS migrations, then the files
StartRun ==
  /\ mig.pc = "stopped"
  /\ mig.runs < MaxRuns
  /\ mig' = [mig EXCEPT !.pc = "check", !.todo = MigrationFiles, !.runs = @ + 1]
  /\ UNCHANGED <<now, API_KEY, cache, inflight, fetch, nfetch, caller, ncalls, primaryOK, args, ret, db, pool, handler>>

\* SELECT 1 FROM migrations WHERE name = ?: a file in the table is skipped;
\* after the last file, pool.end()
CheckApplied ==
  /\ mig.pc = "check"
  /\ mig' = IF mig.todo = <<>> THEN [mig EXCEPT !.pc = "stopped"]
            ELSE IF Head(mig.todo) \in mig.table THEN [mig EXCEPT !.todo = Tail(@)]
            ELSE [mig EXCEPT !.pc = "apply"]
  /\ UNCHANGED <<now, API_KEY, cache, inflight, fetch, nfetch, caller, ncalls, primaryOK, args, ret, db, pool, handler>>

\* await pool.query(sql): the SQL of the file is run
ApplyMigration ==
  /\ mig.pc = "apply"
  /\ mig' = [mig EXCEPT !.pc = "record", !.applied = Append(@, Head(mig.todo))]
  /\ UNCHANGED <<now, API_KEY, cache, inflight, fetch, nfetch, caller, ncalls, primaryOK, args, ret, db, pool, handler>>

\* await pool.query('INSERT INTO migrations(name) VALUES(?)', [f])
RecordMigration ==
  /\ mig.pc = "record"
  /\ mig' = [mig EXCEPT !.pc = "check", !.table = @ \cup {Head(mig.todo)}, !.todo = Tail(@)]
  /\ UNCHANGED <<now, API_KEY, cache, inflight, fetch, nfetch, caller, ncalls, primaryOK, args, ret, db, pool, handler>>

\* the run stops at an await: a query rejects and run().catch exits the
\* process, or the process is killed; the statement awaited was not run
StopRun ==
  /\ mig.pc \in {"check", "apply", "record"}
  /\ mig' = [mig EXCEPT !.pc = "stopped", !.todo = <<>>]
  /\ UNCHANGED <<now, API_KEY, cache, inflight, fetch, nfetch, caller, ncalls, primaryOK, args, ret, db, pool, handler>>

MigrateInit ==
  /\ now = 0
  /\ API_KEY = TRUE
  /\ cache = [k \in Keys |-> NoEntry]
  /\ inflight = [k \in Keys |-> 0]
  /\ fetch = [f \in FetchIds |-> NoFetch]
  /\ nfetch = 0
  /\ caller = [c \in Callers |-> IdleCaller]
  /\ ncalls = 0
  /\ primaryOK = {}
  /\ args = NoArgs
  /\ ret = NotRun
  /\ db = NoDb
  /\ pool = NoPool
  /\ handler = NoHandlers
  /\ mig = NoMigrations

MigrateNext ==
  \/ StartRun
  \/ CheckApplied
  \/ ApplyMigration
  \/ RecordMigration
  \/ StopRun

MigrateSpec == MigrateInit /\ [][MigrateNext]_vars

\* ------------------------------------------------------------------ claims
\* the retry loop of p is running: an upstream call or a backoff sleep is
\* outstanding
Outstanding(f) == fetch[f].phase \in {"http", "sleep"}

\* caller c has had the result of its await of getTomorrowRaw
Observed(c) == caller[c].pc \in {"fallback", "done"}

\* the step is a call of c for key k
CallStep(c, k) == caller[c].pc = "idle" /\ caller'[c].pc # "idle" /\ caller'[c].key = k

\* C1: single-flight: at every instant at most one retry loop is outstanding
\* for each cache key, whatever the number and interleaving of the callers.
C1_SingleFlight ==
  \A k \in Keys : Cardinality({f \in FetchIds : fetch[f].key = k /\ Outstanding(f)}) <= 1

\* three callers of one key are waiting while its only fetch is outstanding
C1_Witness ==
  \E k \in Keys :
    /\ Cardinality({c \in Callers : caller[c].pc = "waiting" /\ caller[c].key = k}) >= 3
    /\ Cardinality({f \in FetchIds : fetch[f].key = k /\ Outstanding(f)}) = 1

\* caller c waits on a promise p that is still pending
AwaitsPending(c) == caller[c].pc = "waiting" /\ fetch[caller[c].f].phase # "done"

\* C2: concurrent calls of one key that find no fresh entry wait on one and
\* the same execution of the fetch, which is a fetch of that key, and all
\* callers of one execution get the same outcome from getTomorrowRaw, the
\* same payload or the same error.
C2_Coalesced ==
  /\ \A c1, c2 \in Callers :
       (AwaitsPending(c1) /\ AwaitsPending(c2) /\ caller[c1].key = caller[c2].key)
         => caller[c1].f = caller[c2].f
  /\ \A c \in Callers :
       caller[c].pc = "waiting" => (caller[c].f \in 1..nfetch /\ fetch[caller[c].f].key = caller[c].key)
  /\ \A c1, c2 \in Callers :
       (Observed(c1) /\ Observed(c2) /\ caller[c1].f # 0 /\ caller[c1].f = caller[c2].f)
         => caller[c1].raw = caller[c2].raw

\* three callers of one key have had the outcome of one fetch, one of them its
\* creator and two of them joiners
C2_Witness ==
  \E c1, c2, c3 \in Callers :
    /\ c1 # c2 /\ c2 # c3 /\ c1 # c3
    /\ Observed(c1) /\ Observed(c2) /\ Observed(c3)
    /\ caller[c1].via \in {"fetch", "fallback"} /\ caller[c1].f # 0
    /\ caller[c2].f = caller[c1].f /\ caller[c3].f = caller[c1].f
    /\ nfetch = 1

\* C3: a call made while the key has an entry with now < expires is answered
\* with the payload of that entry, starts no fetch and stores no inflight
\* handle; at now >= expires the entry is not served as fresh.
C3_FreshHit ==
  [][\A c \in Callers, k \in Keys :
       CallStep(c, k) =>
         IF cache[k].has /\ now < cache[k].expires
         THEN /\ caller'[c].pc = "done"
              /\ caller'[c].res = Resolved(cache[k].data)
              /\ fetch' = fetch /\ nfetch' = nfetch /\ inflight' = inflight /\ cache' = cache
         ELSE caller'[c].pc = "waiting"]_vars

\* a caller was answered from an entry that is still fresh, and another was
\* not answered from an entry that had expired at that very instant
C3_Witness ==
  \E c1, c2 \in Callers :
    /\ caller[c1].via = "fresh" /\ caller[c1].res.ok
    /\ caller[c2].pc = "waiting" /\ cache[caller[c2].key].has
    /\ cache[caller[c2].key].expires = now

\* C4: every cache entry holds a payload that a successful call of the
\* primary provider returned for that key; errors, failed attempts and
\* results of the secondary provider are never in the cache.
C4_OnlyPrimarySuccessCached ==
  \A k \in Keys : cache[k].has =>
    /\ <<k, cache[k].data>> \in primaryOK
    /\ cache[k].data \in Payloads

\* a fetch was rejected and its caller answered by the secondary provider
\* while the key has an entry
C4_Witness ==
  \E c \in Callers :
    /\ caller[c].pc = "done" /\ caller[c].via = "fallback" /\ caller[c].res.ok
    /\ cache[caller[c].key].has

\* C5: the inflight handle of a fetch is removed before a caller has its
\* result, no handle outlives its fetch, and when no fetch is unsettled the
\* inflight map is empty.
C5_HandleRemoved ==
  /\ \A c \in Callers : (Observed(c) /\ caller[c].f # 0) => inflight[caller[c].key] # caller[c].f
  /\ \A k \in Keys : inflight[k] # 0 =>
       (fetch[inflight[k]].key = k /\ fetch[inflight[k]].phase \in {"http", "sleep", "settled"})
  /\ (\A f \in FetchIds : fetch[f].phase \in {"none", "done"}) => (\A k \in Keys : inflight[k] = 0)

\* a caller has had the expired payload from a fetch whose calls all failed,
\* and the map is empty
C5_Witness ==
  /\ \E c \in Callers :
       /\ Observed(c) /\ caller[c].f # 0 /\ caller[c].raw.ok
       /\ fetch[caller[c].f].sleeps = MAX_RETRIES
  /\ \A f \in FetchIds : fetch[f].phase \in {"none", "done"}
  /\ \A k \in Keys : inflight[k] = 0

\* C6: a call that finds an expired entry and an inflight refresh of the key
\* waits on that refresh: it is not answered with the expired payload and
\* starts no fetch; a fetch is started only with no fresh entry and no
\* inflight handle for the key.
C6_ReadPreference ==
  [][\A c \in Callers, k \in Keys :
       CallStep(c, k) =>
         /\ (cache[k].has /\ now >= cache[k].expires /\ inflight[k] # 0)
              => (caller'[c].pc = "waiting" /\ caller'[c].f = inflight[k] /\ nfetch' = nfetch)
         /\ nfetch' # nfetch
              => (~(cache[k].has /\ now < cache[k].expires) /\ inflight[k] = 0)]_vars

\* a caller has joined the refresh of a key whose entry has expired
C6_Witness ==
  \E c \in Callers :
    /\ caller[c].pc = "waiting" /\ caller[c].via = "join"
    /\ cache[caller[c].key].has /\ cache[caller[c].key].expires <= now
    /\ inflight[caller[c].key] = caller[c].f

\* C7: with the API key absent a fetch fails at once with the configuration
\* error: it makes no upstream call, sleeps no backoff and makes no further
\* pass of the loop.
C7_MissingKeyFailsAtOnce ==
  ~API_KEY =>
    \A f \in FetchIds : fetch[f].phase # "none" =>
      /\ fetch[f].phase \in {"settled", "done"}
      /\ fetch[f].outcome = Rejected(MissingKeyErr)
      /\ fetch[f].attempts = 0
      /\ fetch[f].sleeps = 0

\* the statuses the retry applies to: 429, a 5xx, or no status at all
RetryableStatus(st) == st = NoStatus \/ st = 429 \/ (st >= 500 /\ st <= 599)

\* C8: a failed upstream call goes on to the backoff and, while passes of the
\* loop are left, to a further call exactly when its status is 429, a 5xx or
\* absent; with any other status the error leaves the fetch in that very
\* step, without a further call, without a sleep and without the payload of
\* an expired entry in its place.
C8_RetryIffRetryable ==
  [][\A f \in FetchIds :
       /\ (fetch[f].phase = "http" /\ fetch'[f] # fetch[f] /\ ~fetch'[f].outcome.ok) =>
            \/ /\ fetch'[f].phase = "sleep"
               /\ RetryableStatus(fetch'[f].err.status)
               /\ fetch'[f].sleeps = fetch[f].sleeps + 1
            \/ /\ fetch'[f].phase = "settled"
               /\ ~RetryableStatus(fetch'[f].outcome.err.status)
               /\ fetch'[f].outcome.err.msg = "HTTP_ERROR"
               /\ fetch'[f].attempts = fetch[f].attempts
               /\ fetch'[f].sleeps = fetch[f].sleeps
       /\ (fetch[f].phase = "sleep" /\ fetch'[f] # fetch[f] /\ API_KEY /\ fetch[f].i + 1 < MAX_RETRIES) =>
            (fetch'[f].phase = "http" /\ fetch'[f].attempts = fetch[f].attempts + 1)]_vars

\* a first call failed with a 4xx and its error left the fetch without a
\* sleep although the key has an entry
C8_Witness ==
  \E f \in FetchIds :
    /\ fetch[f].phase \in {"settled", "done"}
    /\ ~fetch[f].outcome.ok
    /\ fetch[f].outcome.err.status \in {400, 404}
    /\ fetch[f].attempts = 1 /\ fetch[f].sleeps = 0
    /\ cache[fetch[f].key].has

\* C9: a fetch makes at most MAX_RETRIES upstream calls, and every fetch
\* settles in the end, with a payload, an expired payload or an error.
C9_BoundedAndSettles ==
  /\ [](\A f \in FetchIds : fetch[f].attempts <= MAX_RETRIES)
  /\ \A f \in FetchIds : (Outstanding(f) ~> fetch[f].phase \in {"settled", "done"})

\* a fetch has settled with an error after MAX_RETRIES upstream calls
C9_Witness ==
  \E f \in FetchIds :
    /\ fetch[f].phase \in {"settled", "done"}
    /\ fetch[f].attempts = MAX_RETRIES
    /\ ~fetch[f].outcome.ok

\* the delay of the claim: the retry-after value in milliseconds when it is
\* numeric, and BACKOFF_MS * 2^i otherwise
ClaimedDelay(ra, i) == IF ra # NotANumber THEN ra * 1000 ELSE BACKOFF_MS * (2 ^ i)

\* C10: after a retryable failure of attempt i the sleep lasts exactly the
\* claimed delay, and the next upstream call of the fetch is issued no sooner
\* than that delay after the failure.
C10_BackoffDelay ==
  \A f \in FetchIds :
    /\ fetch[f].phase = "sleep" =>
         fetch[f].wake = fetch[f].failedAt + ClaimedDelay(fetch[f].err.ra, fetch[f].failedI)
    /\ (fetch[f].phase = "http" /\ fetch[f].i > 0) =>
         /\ fetch[f].failedI = fetch[f].i - 1
         /\ fetch[f].issuedAt >= fetch[f].failedAt + ClaimedDelay(fetch[f].err.ra, fetch[f].failedI)

\* a second call was issued two seconds or more after a 429 that carried
\* retry-after 2
C10_Witness ==
  \E f \in FetchIds :
    /\ fetch[f].phase = "http" /\ fetch[f].i = 1
    /\ fetch[f].err.status = 429 /\ fetch[f].err.ra = 2
    /\ fetch[f].issuedAt >= fetch[f].failedAt + 2000

\* C11: when the last pass of the loop has failed with a retryable failure,
\* the fetch returns the payload of the key's cache entry if there is one,
\* expired or not, and raises nothing; only with no entry at all does it
\* raise, and then the last error.
C11_StaleOnError ==
  [][\A f \in FetchIds :
       (fetch[f].phase = "sleep" /\ fetch'[f] # fetch[f] /\ fetch[f].i + 1 >= MAX_RETRIES) =>
         /\ fetch'[f].phase = "settled"
         /\ fetch'[f].outcome =
              IF cache[fetch[f].key].has
              THEN Resolved(cache[fetch[f].key].data)
              ELSE Rejected(fetch[f].err)]_vars

\* a fetch whose MAX_RETRIES calls all failed has returned the payload of an
\* entry that had expired, and its caller has that payload as its result
C11_Witness ==
  \E c \in Callers :
    /\ caller[c].pc = "done" /\ caller[c].via = "fetch" /\ caller[c].res.ok
    /\ fetch[caller[c].f].attempts = MAX_RETRIES /\ fetch[caller[c].f].sleeps = MAX_RETRIES
    /\ cache[caller[c].key].has /\ cache[caller[c].key].expires <= now
    /\ caller[c].res = Resolved(cache[caller[c].key].data)

Returned(c) ==
  IF caller[c].call.fn = "forecastFactsForSchedule"
  THEN caller[c].pc = "returned"
  ELSE caller[c].pc = "done"

\* the primary path of c failed with MAX_RETRIES retryable failures in a row
\* and the key had no cache entry
PrimaryExhausted(c) ==
  /\ caller[c].f # 0
  /\ caller[c].raw # Pending /\ ~caller[c].raw.ok
  /\ fetch[caller[c].f].sleeps = MAX_RETRIES

\* C13: a request whose primary path failed with MAX_RETRIES retryable
\* failures and no cache entry has queried the secondary provider exactly
\* once when it is over, whatever its entry point and whether the secondary
\* query succeeded or failed.
C13_SecondaryQueriedOnce ==
  \A c \in Callers : (Returned(c) /\ PrimaryExhausted(c)) => caller[c].om = 1

\* when the fetch of c was started the key had an entry: the payload of an
\* earlier fetch is in the cache
HadEntry(c) ==
  /\ cache[caller[c].key].has
  /\ \E g \in 1..(caller[c].f - 1) : cache[caller[c].key].data = Payload(g)

\* C14: getRealtime and getForecast raise only on total exhaustion: the
\* primary path has raised, the key had no cache entry to fall back on and
\* the secondary provider has failed as well; a primary failure with a
\* working secondary provider or with a stale entry gives a payload.
C14_ErrorOnlyOnExhaustion ==
  \A c \in Callers :
    (caller[c].pc = "done" /\ ~caller[c].res.ok) =>
      /\ caller[c].f # 0
      /\ ~caller[c].raw.ok
      /\ caller[c].om = 1
      /\ ~HadEntry(c)

\* the coordinates of invocation q are numbers, or strings of numbers, with
\* the latitude in [-90, 90] and the longitude in [-180, 180]
ValidCoords(q) ==
  /\ q.lat.type \in {"number", "string"} /\ q.lat.finite
  /\ q.lon.type \in {"number", "string"} /\ q.lon.finite
  /\ q.lat.m >= -90000 /\ q.lat.m <= 90000
  /\ q.lon.m >= -180000 /\ q.lon.m <= 180000

\* C15: an invocation of getRealtime or getForecast whose coordinates are
\* not numeric or are out of range is rejected with the invalid-input error,
\* having looked up no cache entry, joined or started no fetch and made no
\* network call.
C15_InvalidCoordsRejected ==
  \A c \in Callers :
    (caller[c].pc # "idle" /\ ~ValidCoords(caller[c].call)) =>
      /\ caller[c].res = Rejected(InvalidCoordsErr)
      /\ caller[c].via = "invalid"
      /\ caller[c].f = 0

\* the step is an operation on key k: a call for k, or a step of a fetch of k
OperationOn(k) ==
  \/ \E c \in Callers : CallStep(c, k)
  \/ \E f \in FetchIds : fetch[f].key = k /\ fetch'[f] # fetch[f]
  \/ \E f \in FetchIds : fetch[f].key = NoKey /\ fetch'[f].key = k

\* C16: the keys are independent. The cache entry and the inflight handle of
\* a key change only in an operation on that key; a call for a key is
\* answered, joined to a fetch of that same key or given a fetch of its own
\* that runs to its first await in that very step, whatever the fetches of
\* other keys are doing; and a call can be made at any time.
C16_KeysIndependent ==
  /\ [][\A k \in Keys :
          /\ (cache'[k] # cache[k] \/ inflight'[k] # inflight[k]) => OperationOn(k)
          /\ \A c \in Callers :
               CallStep(c, k) =>
                 /\ caller'[c].f # 0 => fetch'[caller'[c].f].key = k
                 /\ (getCache(k) = NoData /\ inflight[k] = 0) =>
                      /\ nfetch' = nfetch + 1
                      /\ caller'[c].f = nfetch'
                      /\ inflight'[k] = nfetch'
                      /\ fetch'[nfetch'].phase = (IF API_KEY THEN "http" ELSE "sleep")
                      /\ API_KEY => fetch'[nfetch'].issuedAt = now]_vars
  /\ [](\A c \in Callers, q \in {CallA, CallB} :
          (caller[c].pc = "idle" /\ c = ncalls + 1) =>
            ENABLED (CallFresh(c, q) \/ CallJoin(c, q) \/ CallFetch(c, q)))

\* while the fetch of KeyA awaits its upstream call, a later request for KeyB
\* has started its own fetch and has had its payload
C16_Witness ==
  \E f \in FetchIds, c \in Callers :
    /\ fetch[f].key = KeyA /\ fetch[f].phase = "http" /\ inflight[KeyA] = f
    /\ caller[c].key = KeyB /\ caller[c].pc = "done" /\ caller[c].via = "fetch"
    /\ caller[c].res.ok /\ caller[c].f > f
    /\ cache[KeyB].has /\ ~cache[KeyA].has

\* c has invoked an entry point with coordinates that were let through
Called(c) == caller[c].pc # "idle" /\ caller[c].via # "invalid"

\* the operation of an invocation: realtime or forecast
Operation(q) == IF q.fn = "getRealtime" THEN "realtime" ELSE "forecast"

\* a number of m thousandths rounded to hundredths, as a number
Round2(m) == IF m < 0 THEN -((-m + 5) \div 10) ELSE (m + 5) \div 10

\* the same operation, units, timestep, start and end
SameOptions(q1, q2) ==
  /\ Operation(q1) = Operation(q2)
  /\ q1.units = q2.units
  /\ q1.timesteps = q2.timesteps
  /\ q1.startTime = q2.startTime /\ q1.endTime = q2.endTime

\* the invocation that started fetch f
Creator(f) == CHOOSE c \in Callers : caller[c].f = f /\ caller[c].via = "fetch"

\* c has been given the payload that the primary provider returned to fetch f
ServedPayloadOf(c, f) == Called(c) /\ caller[c].res = Resolved(Payload(f))

\* C17 as stated: two requests have the same cache key exactly when they
\* have the same operation, the same coordinates after rounding to two
\* decimals, the same units and the same timestep, start and end; and a
\* cached payload is served only to requests for the location it was fetched
\* for.
C17_KeyPerLocation ==
  /\ \A c1, c2 \in Callers :
       (Called(c1) /\ Called(c2)) =>
         (caller[c1].key = caller[c2].key <=>
            /\ SameOptions(caller[c1].call, caller[c2].call)
            /\ Round2(Number(caller[c1].call.lat).m) = Round2(Number(caller[c2].call.lat).m)
            /\ Round2(Number(caller[c1].call.lon).m) = Round2(Number(caller[c2].call.lon).m))
  /\ \A c \in Callers, f \in 1..nfetch :
       ServedPayloadOf(c, f) =>
         /\ Number(caller[c].call.lat) = Number(caller[Creator(f)].call.lat)
         /\ Number(caller[c].call.lon) = Number(caller[Creator(f)].call.lon)

\* C17: two requests have the same cache key exactly when they have the same
\* operation, the same toFixed(2) text of their coordinates ("-0.00" is not
\* "0.00"), the same units and the same timestep, start and end; a number
\* and a string of the same value give one key; and a payload is served only
\* to requests with the key of the request it was fetched for, whose
\* location may differ from its own within the rounding.
C17_KeyPerRendering ==
  /\ \A c1, c2 \in Callers :
       (Called(c1) /\ Called(c2)) =>
         /\ caller[c1].key = caller[c2].key <=>
              /\ SameOptions(caller[c1].call, caller[c2].call)
              /\ toFixed2(Number(caller[c1].call.lat)) = toFixed2(Number(caller[c2].call.lat))
              /\ toFixed2(Number(caller[c1].call.lon)) = toFixed2(Number(caller[c2].call.lon))
         /\ (/\ SameOptions(caller[c1].call, caller[c2].call)
             /\ Number(caller[c1].call.lat) = Number(caller[c2].call.lat)
             /\ Number(caller[c1].call.lon) = Number(caller[c2].call.lon))
              => caller[c1].key = caller[c2].key
  /\ \A c \in Callers, f \in 1..nfetch :
       ServedPayloadOf(c, f) => caller[c].key = caller[Creator(f)].key

\* a request for latitude 4.604 was answered from the cache with the payload
\* fetched for latitude 4.601, and a request with the string "4.601" has the
\* key of the number 4.601
C17_Witness ==
  \E c1, c2 \in Callers :
    /\ caller[c1].via = "fetch" /\ caller[c1].pc = "done" /\ caller[c1].res.ok
    /\ caller[c2].via = "fresh" /\ caller[c2].res = caller[c1].res
    /\ caller[c1].call.lat \in {Num(4601), Str(4601)}
    /\ caller[c2].call.lat = Num(4604)
    /\ caller[c1].key = cacheKey(Realtime(Str(4601), Num(-74080), "metric"))

\* C18: a key that has a cache entry keeps having one, and the entry of a
\* key changes only when an upstream call of a fetch of that key succeeds:
\* it is then replaced as a whole by the new payload with the expiry at the
\* instant of completion plus TTL_MS.
C18_EntryLifecycle ==
  [][\A k \in Keys :
       /\ cache[k].has => cache'[k].has
       /\ cache'[k] # cache[k] =>
            \E f \in FetchIds :
              /\ fetch[f].key = k /\ fetch[f].phase = "http"
              /\ fetch'[f].phase = "settled" /\ fetch'[f].outcome.ok
              /\ cache'[k] = [has |-> TRUE, expires |-> now + TTL_MS,
                              data |-> fetch'[f].outcome.data]]_vars

\* the entry written by the first fetch has expired and has been replaced by
\* the payload of the second fetch, with a later expiry
C18_Witness ==
  /\ <<KeyA, Payload(1)>> \in primaryOK
  /\ cache[KeyA].has /\ cache[KeyA].data = Payload(2)
  /\ cache[KeyA].expires >= 2 * TTL_MS

\* the UTC instant, in hours, that an ISO timestamp of June 2024 denotes
Instant(t) == ((t[9] - 48) * 10 + (t[10] - 48)) * 24 + (t[12] - 48) * 10 + (t[13] - 48)

\* the samples of the call whose instant lies in the window, ends included
SamplesInside ==
  {i \in 1..Len(hourlyOf(args.raw)) :
     /\ Instant(args.startISO) <= Instant(hourlyOf(args.raw)[i].time)
     /\ Instant(hourlyOf(args.raw)[i].time) <= Instant(args.endISO)}

\* C19: when the input has no hourly sample, or no sample lies inside
\* [startISO, endISO], summarizeForecastWindow returns the object whose only
\* field is hours, with value 0.
C19_EmptySummary ==
  (ret.done /\ args.fn = "summarizeForecastWindow" /\ SamplesInside = {}) =>
    /\ ret.value = [hours |-> 0]
    /\ DOMAIN ret.value = {"hours"}

\* a call with samples, none of them inside the window, has returned
\* { hours: 0 }
C19_Witness ==
  /\ ret.done /\ args.fn = "summarizeForecastWindow"
  /\ Len(hourlyOf(args.raw)) = 2 /\ SamplesInside = {}
  /\ Instant(args.startISO) <= Instant(args.endISO)
  /\ ret.value = [hours |-> 0]

\* C20: summarizeForecastWindow counts in hours exactly the samples whose
\* instant t satisfies startISO <= t <= endISO, a sample at the very start or
\* the very end of the window included, whether or not its timestamp is
\* written like the bounds of the window (with or without milliseconds).
C20_InclusiveByInstant ==
  (ret.done /\ args.fn = "summarizeForecastWindow") =>
    ret.value.hours = Cardinality(SamplesInside)

\* the samples of the call that the filter of summarizeForecastWindow keeps
Selected ==
  {i \in 1..Len(hourlyOf(args.raw)) :
     InWindow(hourlyOf(args.raw)[i], args.startISO, args.endISO)}

\* the non-null values that the selected samples carry in one field
Present(field) ==
  {hourlyOf(args.raw)[i].values[field][1] :
     i \in {j \in Selected : hourlyOf(args.raw)[j].values[field] # NullValue}}

Least(S) == CHOOSE x \in S : \A y \in S : x <= y
Greatest(S) == CHOOSE x \in S : \A y \in S : x >= y
MinOrNull(S) == IF S = {} THEN NullValue ELSE Value(Least(S))
MaxOrNull(S) == IF S = {} THEN NullValue ELSE Value(Greatest(S))
MaxOrZero(S) == IF S = {} THEN 0 ELSE Greatest(S)

\* the sum of one field over a set of samples, nulls left out
RECURSIVE TotalOver(_, _)
TotalOver(I, field) ==
  IF I = {} THEN 0
  ELSE LET i == CHOOSE j \in I : TRUE
           v == hourlyOf(args.raw)[i].values[field]
       IN (IF v = NullValue THEN 0 ELSE v[1]) + TotalOver(I \ {i}, field)

\* the elements of a sequence
Elements(s) == {s[i] : i \in 1..Len(s)}

\* C21: for a selection that is not empty, summarizeForecastWindow returns
\* hours = the number of selected samples, tempMin / tempMax = the least / the
\* greatest non-null temperature (null if there is none), windMax_ms,
\* gustMax_ms, uvMax and precipProbMax = the greatest non-null value (0 if there
\* is none), visMin_km = the least non-null visibility (null if there is none),
\* precipMmTotal = the sum of the non-null accumulations and codes = the
\* non-null weather codes without duplicates; a null field never counts as a
\* zero in a minimum.
C21_SummaryFields ==
  (ret.done /\ args.fn = "summarizeForecastWindow" /\ Selected # {}) =>
    /\ ret.value.hours = Cardinality(Selected)
    /\ ret.value.tempMin = MinOrNull(Present("temperature"))
    /\ ret.value.tempMax = MaxOrNull(Present("temperature"))
    /\ ret.value.windMax_ms = MaxOrZero(Present("windSpeed"))
    /\ ret.value.gustMax_ms = MaxOrZero(Present("windGust"))
    /\ ret.value.uvMax = MaxOrZero(Present("uvIndex"))
    /\ ret.value.precipProbMax = MaxOrZero(Present("precipitationProbability"))
    /\ ret.value.visMin_km = MinOrNull(Present("visibility"))
    /\ ret.value.precipMmTotal = TotalOver(Selected, "rainAccumulation")
    /\ Elements(ret.value.codes) = Present("weatherCode")
    /\ Len(ret.value.codes) = Cardinality(Present("weatherCode"))

\* three selected samples, one of them without visibility and one without
\* temperature, two of them with the same code: the minima are those of the
\* values that are present and the code is listed once
C21_Witness ==
  /\ ret.done /\ args.fn = "summarizeForecastWindow"
  /\ Cardinality(Selected) = 3
  /\ \E i \in Selected : hourlyOf(args.raw)[i].values.visibility = NullValue
  /\ \E i \in Selected : hourlyOf(args.raw)[i].values.temperature = NullValue
  /\ ret.value.visMin_km = Value(10)
  /\ ret.value.tempMin = Value(10) /\ ret.value.tempMax = Value(12)
  /\ ret.value.codes = <<1000>>
  /\ ret.value.precipMmTotal = 2

\* ms * 3.6 rounded to one decimal, in tenths of a km/h, for ms in hundredths
\* of a m/s: the tenth nearest to 36 * ms / 100
NearestTenth(ms) ==
  CHOOSE t \in ((36 * ms) \div 100)..((36 * ms) \div 100 + 1) :
    100 * t - 36 * ms \in -50..50

KmhOf(ms) == IF ms # 0 THEN Value(NearestTenth(ms)) ELSE NullValue

\* the values that the selected samples carry in one field, in their order
FieldOfSelected(field) ==
  LET sel == SelectSeq(hourlyOf(args.raw), LAMBDA h : InWindow(h, args.startISO, args.endISO))
  IN [i \in 1..Len(sel) |-> sel[i].values[field]]

\* C22: in every summary windMax_kmh is windMax_ms * 3.6 rounded to one decimal
\* and gustMax_kmh is gustMax_ms * 3.6 rounded to one decimal, a number only
\* when the maximum in m/s is not zero and null otherwise; temperatures
\* 10, 15, 12 and winds of 2, 6, 3 m/s inside the window give tempMin = 10,
\* tempMax = 15, windMax_ms = 6 and windMax_kmh = 21.6.
C22_KmhRounded ==
  (ret.done /\ args.fn = "summarizeForecastWindow" /\ ret.value.hours > 0) =>
    /\ ret.value.windMax_kmh = KmhOf(ret.value.windMax_ms)
    /\ ret.value.gustMax_kmh = KmhOf(ret.value.gustMax_ms)
    /\ (/\ FieldOfSelected("temperature") = <<Value(10), Value(15), Value(12)>>
        /\ FieldOfSelected("windSpeed") = <<Value(200), Value(600), Value(300)>>)
       => /\ ret.value.tempMin = Value(10) /\ ret.value.tempMax = Value(15)
          /\ ret.value.windMax_ms = 600 /\ ret.value.windMax_kmh = Value(216)

\* the summary of the three samples of the example: 6 m/s are 21.6 km/h, the
\* gust maximum of 9.25 m/s is 33.3 km/h
C22_Witness ==
  /\ ret.done /\ args.fn = "summarizeForecastWindow"
  /\ FieldOfSelected("temperature") = <<Value(10), Value(15), Value(12)>>
  /\ FieldOfSelected("windSpeed") = <<Value(200), Value(600), Value(300)>>
  /\ ret.value.windMax_kmh = Value(216)
  /\ ret.value.gustMax_kmh = Value(333)

\* a summary with its codes as a set
Unordered(s) == IF s.hours = 0 THEN s ELSE [s EXCEPT !.codes = Elements(@)]

\* the samples of the call rearranged by the permutation p of their positions
Rearranged(p) ==
  LET hourly == hourlyOf(args.raw)
  IN [shape |-> args.raw.shape, hourly |-> [i \in DOMAIN hourly |-> hourly[p[i]]]]

\* the selected samples of the call alone, the others taken out
SelectedOnly ==
  [shape |-> args.raw.shape,
   hourly |-> SelectSeq(hourlyOf(args.raw),
                        LAMBDA h : InWindow(h, args.startISO, args.endISO))]

Supplied(z) == z.type = "string" /\ z.s # ""

\* the coordinates lie on the map: numbers after Number(), in range
OnMap(lat, lon) ==
  /\ isNum(lat) /\ isNum(lon)
  /\ Number(lat).m \in -90000..90000 /\ Number(lon).m \in -180000..180000

\* C24: resolveTimezone never raises, whatever its inputs: it returns the
\* explicit zone whenever one is supplied, whatever the coordinates are;
\* without one, the zone derived from the coordinates; and 'UTC' when the
\* derivation fails.
C24_NeverRaises ==
  (ret.done /\ args.fn = "resolveTimezone") =>
    /\ ~ret.value.threw
    /\ Supplied(args.scheduleTZ) => ret.value.value = args.scheduleTZ
    /\ (~Supplied(args.scheduleTZ) /\ OnMap(args.lat, args.lon)) =>
         ret.value.value = ZoneAt(Number(args.lat), Number(args.lon))
    /\ (~Supplied(args.scheduleTZ) /\ ~OnMap(args.lat, args.lon)) =>
         ret.value.value = Text("UTC")

\* without a zone and with a latitude of 91 degrees the lookup has failed
\* and the call has returned 'UTC'
C24_Witness ==
  /\ ret.done /\ args.fn = "resolveTimezone"
  /\ args.scheduleTZ = Null /\ args.lat = Num(91000)
  /\ ret.value = Normal(Text("UTC"))

\* a time of the schedule is null or absent
Missing(v) == v.type \in {"null", "undefined"}

\* the UTC timestamp of an hour of the day of the schedule in a zone
LocalHourInUTC(hour, z) ==
  Value(toISO((10 * 24 + hour - ZoneOffset(z.s)) \div 24,
              (10 * 24 + hour - ZoneOffset(z.s)) % 24))

\* C25: for every schedule given to scheduleToUTCWindow whose start time or
\* end time is null or absent, the window is computed with 08:00 for the
\* start and 17:00 for the end, and a null zone is resolved from the
\* coordinates.
C25_DefaultsForMissing ==
  (/\ ret.done /\ args.fn = "scheduleToUTCWindow"
   /\ args.schedule.fecha = Text("2024-06-10")
   /\ ~ret.value.threw
   /\ ZoneOffset(ret.value.value.tz.s) # NoZone) =>
    /\ Missing(args.schedule.horaInicio) =>
         ret.value.value.startISO = LocalHourInUTC(8, ret.value.value.tz)
    /\ Missing(args.schedule.horaFin) =>
         ret.value.value.endISO = LocalHourInUTC(17, ret.value.value.tz)
    /\ args.schedule.zonaHoraria = Null =>
         ret.value.value.tz = IF OnMap(args.lat, args.lon)
                              THEN ZoneAt(Number(args.lat), Number(args.lon))
                              ELSE Text("UTC")

\* C26: the mapping from the canonical observation to the shape of the
\* primary provider is the inverse of the mapping from that shape to the
\* canonical observation: for every canonical observation c that the
\* normalizer of the secondary provider produces,
\* normalizeRealtimePayload(denormalizeToTomorrowShape(c)) equals c field for
\* field, weatherText and the precipitation included.
C26_RoundTrip ==
  (ret.done /\ args.fn = "weather" /\ args.provider = "open-meteo") =>
    ret.value.weather = ret.value.om

\* the answer has no value of a series for row i
MissingAt(series, i) == At(args.data.hourly[series], i).type \in {"null", "undefined"}

\* the series of the answer that are no precipitation, with the field of
\* the sample each one fills
OtherSeries ==
  {<<"temperature_2m", "temperature">>, <<"apparent_temperature", "temperatureApparent">>,
   <<"relative_humidity_2m", "humidity">>, <<"wind_speed_10m", "windSpeed">>,
   <<"wind_gusts_10m", "windGust">>, <<"wind_direction_10m", "windDirection">>,
   <<"uv_index", "uvIndex">>, <<"visibility", "visibility">>}

\* C27: in every hourly sample built from a row of the secondary provider,
\* the missing precipitation fields, the accumulation and the probability of
\* precipitation, are 0, and every other missing field is null or absent,
\* never 0.
C27_PrecipitationDefaults ==
  (ret.done /\ args.fn = "getOpenMeteoForecastWindow") =>
    \A i \in DOMAIN ret.value.hourly :
      LET v == ret.value.hourly[i].values
      IN /\ (MissingAt("rain", i) /\ MissingAt("precipitation", i)) =>
              v.rainAccumulation = Num(0)
         /\ MissingAt("precipitation_probability", i) => v.precipitationProbability = Num(0)
         /\ \A s \in OtherSeries :
              MissingAt(s[1], i) => v[s[2]].type \in {"null", "undefined"}
         /\ v.weatherCode = Null

\* the advisories of each category
TemperatureAdvisories == {"Alerta por calor extremo", "Calor moderado", "Frio severo"}
UvAdvisories == {"UV alto"}
WindAdvisories == {"Viento muy fuerte", "Viento fuerte", "Viento moderado"}
RainAdvisories == {"Lluvia intensa", "Lluvia ligera"}

\* C28: a consumer reads a null field as not available, not as zero: for a
\* normalized observation whose temperatura (or uv, or viento) is null,
\* quickRules gives no advisory of that category; a missing temperature never
\* gives the advisory of severe cold.
C28_NullIsUnavailable ==
  (ret.done /\ args.fn = "weather") =>
    /\ ret.value.weather.temperatura = Null =>
         Elements(ret.value.rules) \cap TemperatureAdvisories = {}
    /\ ret.value.weather.uv = Null => Elements(ret.value.rules) \cap UvAdvisories = {}
    /\ ret.value.weather.viento = Null => Elements(ret.value.rules) \cap WindAdvisories = {}

\* a reading of the observation in hundredths, a missing one counted as 0 as
\* the README documents; NaN is no reading and meets no threshold
Readable(field) == args.rec[field].type \in {"null", "undefined"} \/ args.rec[field].finite
Reading(field) ==
  IF args.rec[field].type \in {"null", "undefined"} THEN 0 ELSE args.rec[field].m

\* the advisory that the thresholds of the README ask for in each category,
\* the most severe tier first; none when no threshold is met
TemperatureTier ==
  LET t == Reading("temperatura")
  IN IF ~Readable("temperatura") THEN {}
     ELSE IF t >= 3500 THEN {"Alerta por calor extremo"}
     ELSE IF t >= 3000 THEN {"Calor moderado"}
     ELSE IF t <= 500 THEN {"Frio severo"}
     ELSE {}
UvTier == IF Readable("uv") /\ Reading("uv") >= 600 THEN {"UV alto"} ELSE {}
\* w hundredths of a m/s are 36 * w thousandths of a km/h
WindTier ==
  LET w == Reading("viento")
  IN IF ~Readable("viento") THEN {}
     ELSE IF 36 * w >= 60 * 1000 THEN {"Viento muy fuerte"}
     ELSE IF 36 * w >= 45 * 1000 THEN {"Viento fuerte"}
     ELSE IF 36 * w >= 30 * 1000 THEN {"Viento moderado"}
     ELSE {}
RainTier ==
  LET r == Reading("precipitacion")
  IN IF ~Readable("precipitacion") THEN {}
     ELSE IF r >= 3000 THEN {"Lluvia intensa"}
     ELSE IF r > 0 THEN {"Lluvia ligera"}
     ELSE {}

\* C29: quickRules always returns at least one advisory; it returns the
\* advisory of normal conditions if and only if no threshold of temperature,
\* UV, wind or rain is met; it gives at most one advisory per category, that
\* of the most severe tier met (temperature >= 35 / >= 30 / <= 5, UV >= 6,
\* wind in km/h >= 60 / >= 45 / >= 30, rain >= 30 / > 0).
C29_TieredAdvisories ==
  (ret.done /\ args.fn = "quickRules") =>
    LET rules == Elements(ret.value)
        met == TemperatureTier \cup UvTier \cup WindTier \cup RainTier
    IN /\ Len(ret.value) >= 1
       /\ Len(ret.value) = Cardinality(rules)
       /\ "Condiciones normales" \in rules <=> met = {}
       /\ rules \cap TemperatureAdvisories = TemperatureTier
       /\ rules \cap UvAdvisories = UvTier
       /\ rules \cap WindAdvisories = WindTier
       /\ rules \cap RainAdvisories = RainTier
       /\ rules \subseteq TemperatureAdvisories \cup UvAdvisories \cup WindAdvisories
                            \cup RainAdvisories \cup {"Condiciones normales"}

\* 35 degrees, UV 6, 16.67 m/s and 30 mm: one advisory of each category, each
\* of the most severe tier
C29_Witness ==
  /\ ret.done /\ args.fn = "quickRules"
  /\ args.rec.temperatura = Num(3500) /\ args.rec.viento = Num(1667)
  /\ ret.value = <<"Alerta por calor extremo", "UV alto", "Viento muy fuerte", "Lluvia intensa">>

\* the routes that take the :id of a company
IdRoutes ==
  {"GET /:id", "DELETE /:id", "GET /:id/weather", "GET /:id/historial", "GET /:id/history",
   "DELETE /:id/historial", "DELETE /:id/history", "POST /:id/advanced-query",
   "POST /:id/history"}

\* the step answers a request of user u on the company c, a row of user v
RequestOn(u, c, v) ==
  /\ args'.fn = "route" /\ args'.route \in IdRoutes
  /\ getUserId(args'.header) = u
  /\ isNum(args'.id) /\ Number(args'.id).m = c
  /\ db.companies[c] = v

\* C30: access is scoped by user: on every company route that takes :id (get,
\* delete, weather, the historial / history list, clear and insert, the
\* advanced query) a request of user u on a company of another user v is
\* answered 404 and neither reads nor changes a row of v; DELETE /:id never
\* deletes a company that the requester does not own.
C30_UserScoped ==
  [][\A u \in Users, v \in Users, c \in CompanyIds :
       (u # v /\ RequestOn(u, c, v)) =>
         /\ ret'.value.status = 404
         /\ ret'.value.companies = {} /\ ret'.value.historial = {}
         /\ db' = db]_vars

\* the token that the guard reads from the request passes jwt.verify
Verified(req) == tokenOf(req).type = "token" /\ tokenOf(req).signed

\* C31: every request that reaches a /api/companies handler acts under a user
\* id established by a verified JWT: a request with no token or with an
\* invalid token is answered 401 and reaches no handler, whatever its
\* x-user-id header
C31_VerifiedOnly ==
  (args.fn = "request" /\ ret.done) =>
    /\ ~Verified(args) => (ret.value.status = 401 /\ ~ret.value.reached)
    /\ ret.value.reached => (Verified(args) /\ ret.value.uid = tokenOf(args).id)

\* C32: every backoff sleep of a fetch is followed by another upstream attempt
\* of that fetch: a fetch that sleeps has a pass of the loop left, and a fetch
\* performs at most MAX_RETRIES - 1 sleeps (stated with the API key present,
\* where every pass of the loop is an upstream attempt)
C32_SleepOnlyBetweenAttempts ==
  API_KEY =>
    \A f \in FetchIds :
      /\ fetch[f].sleeps <= MAX_RETRIES - 1
      /\ fetch[f].phase = "sleep" => LoopContinues(fetch[f].i + 1)

\* callers c and d share one primary fetch, and it failed
ShareFailedFetch(c, d) ==
  /\ c # d
  /\ caller[c].f # 0
  /\ caller[c].f = caller[d].f
  /\ fetch[caller[c].f].phase = "done"
  /\ ~fetch[caller[c].f].outcome.ok

\* C33: the coalescing guarantee covers the fallback: callers with the same
\* key that share one failed primary fetch send at most one query to the
\* secondary provider in total, and all of them receive the same result
C33_FallbackCoalesced ==
  \A c \in Callers, d \in Callers :
    ShareFailedFetch(c, d) =>
      /\ caller[c].om + caller[d].om <= 1
      /\ (caller[c].pc = "done" /\ caller[d].pc = "done") => caller[c].res = caller[d].res

\* the hour that a time of the schedule denotes, with its default
HourGiven(v, default) == IF Missing(v) THEN default ELSE HourOf(v.s)

\* the window that came back ends before it starts
EndsBeforeStart(window) ==
  /\ window.startISO # NullValue /\ window.endISO # NullValue
  /\ window.startISO # window.endISO
  /\ StrLE(window.endISO[1], window.startISO[1])

\* a sample of the forecast lies between the end and the start of the window
BetweenEndAndStart(raw, window) ==
  \E i \in 1..Len(hourlyOf(raw)) :
    InWindow(hourlyOf(raw)[i], window.endISO[1], window.startISO[1])

\* C34: a resolved window whose end instant precedes its start instant (a
\* schedule whose end time is earlier than its start time) summarizes to
\* { hours: 0 } whatever samples the provider returned; the bounds are the
\* two times on the date of the schedule, neither swapped nor moved to the
\* next day
C34_ReversedWindowIsEmpty ==
  (ret.done /\ args.fn = "forecastFacts" /\ ~ret.value.threw) =>
    /\ ret.value.value.startISO =
         LocalHourInUTC(HourGiven(args.schedule.horaInicio, 8), ret.value.value.tz)
    /\ ret.value.value.endISO =
         LocalHourInUTC(HourGiven(args.schedule.horaFin, 17), ret.value.value.tz)
    /\ EndsBeforeStart(ret.value.value) => ret.value.value.facts = [hours |-> 0]

\* a night shift in Bogota, 22:00 to 06:00, with samples of the provider
\* between the end and the start of its window
C34_Witness ==
  /\ ret.done /\ args.fn = "forecastFacts" /\ ~ret.value.threw
  /\ args.schedule.horaInicio = Text("22:00") /\ args.schedule.horaFin = Text("06:00")
  /\ EndsBeforeStart(ret.value.value)
  /\ BetweenEndAndStart(args.raw, ret.value.value)
  /\ ret.value.value.facts = [hours |-> 0]

\* the samples of a forecast between two instants
HoursIn(raw, from, to) ==
  Cardinality({i \in 1..Len(hourlyOf(raw)) : InWindow(hourlyOf(raw)[i], from, to)})
HoursOfWindow == HoursIn(args.window, toISO(9, 21), toISO(10, 13))
HoursOfNext6 == HoursIn(args.next6, QueryNow, QueryNowPlus6)

\* the calls that an advanced query has made so far
CallsMade == IF ret = NotRun THEN <<>> ELSE IF ret.done THEN ret.value.trace ELSE ret.trace

NamedWeekday(w) ==
  CASE Unaccent(w) = "lunes" -> 1
    [] Unaccent(w) = "martes" -> 2
    [] Unaccent(w) = "miercoles" -> 3
    [] Unaccent(w) = "jueves" -> 4
    [] Unaccent(w) = "viernes" -> 5
    [] Unaccent(w) = "sabado" -> 6
    [] Unaccent(w) = "domingo" -> 7
    [] OTHER -> 0

\* the date that lies days after today is the occurrence of the weekday
\* that w names, on or after today + first, that comes first
NextOccurrence(days, w, first) ==
  /\ days \in first..(first + 6)
  /\ WeekdayAfter(args.today, days) = NamedWeekday(w)

\* the date returned for a message that names a weekday is the one the
\* message asks for
AsksFor(result) ==
  /\ result # NullValue
  /\ IF Unaccent(args.msg[1]) \in {"proximo", "prox"}
     THEN NextOccurrence(result[1], args.msg[2], 1)
     ELSE NextOccurrence(result[1], args.msg[2], 0)

\* C36: resolveRelativeDateSpanish, for a message naming a weekday with
\* 'este', 'el' or no prefix, returns a date in [today, today+6] whose day of
\* week is the named weekday, for every current weekday and named weekday;
\* with 'próximo' it returns the next occurrence strictly after today
C36_NamedWeekday ==
  (ret.done /\ args.fn = "resolveRelativeDateSpanish" /\ NamedWeekday(args.msg[2]) # 0) =>
    AsksFor(ret.value)

\* C37: the row returned by a create operation is the row inserted by that
\* same request: under any interleaving of concurrent requests over the
\* connection pool, POST /api/auth/register returns the user it just
\* inserted and POST /api/companies the company it just inserted, never a
\* row inserted by another request and never an empty result
C37_ReturnsOwnRow ==
  \A h \in Handlers :
    handler[h].pc = "done" =>
      /\ handler[h].status = 201
      /\ handler[h].body = handler[h].inserted

\* the times that the SQL of file f was run
TimesApplied(f) == Cardinality({i \in 1..Len(mig.applied) : mig.applied[i] = f})

\* C38: the migration runner applies each .sql file at most once over any
\* number of runs, in ascending order of the file names, and records a file
\* in the migrations table only after its SQL was applied; a run that stops
\* at any step leaves a state from which a re-run applies exactly the files
\* not yet applied, without applying any again
C38_AppliedOnce ==
  /\ \A i \in 1..Len(mig.applied) : TimesApplied(mig.applied[i]) = 1
  /\ \A i \in 1..Len(mig.applied), j \in 1..Len(mig.applied) :
       i < j => StrLE(mig.applied[i], mig.applied[j])
  /\ \A f \in mig.table : TimesApplied(f) >= 1
  /\ \A i \in 1..Len(mig.applied) :
       \E f \in MigrationsDir : f.sql /\ f.name = mig.applied[i]

TypeOK ==
  /\ now \in Nat
  /\ nfetch \in 0..NCallers
  /\ ncalls \in 0..NCallers
====
